---- MODULE Spec2Model ----
(***************************************************************************)
(* PasteGo: the clipboard capture loop with its clip store                 *)
(* (src-tauri/src/clipboard.rs, src-tauri/src/db.rs) and the AI streaming  *)
(* normalizer (src-tauri/src/ai.rs).                                       *)
(*                                                                         *)
(* Spec        the capture loop, the clip store and the store's callers    *)
(* StreamSpec  one stream_generate call against a response byte stream     *)
(* MonitorSpec the start and stop calls of ClipboardMonitor and its loops  *)
(* StoreSpec   the methods of Database called one after another            *)
(* PairSpec    two ai_generate commands in flight at the same time         *)
(* LockSpec    two threads inside the methods of Database                  *)
(* DetectSpec  detect_type applied to a text                               *)
(* ProviderSpec the provider commands and ai_generate's choice of provider *)
(***************************************************************************)
EXTENDS Integers, Sequences, FiniteSets, TLC

\* ------------------------------------------------------------------ bounds
\* the wall clock runs over 0..MaxTime (one unit = one day)
MaxTime == 1
\* number of rows ever inserted (uuid::Uuid::new_v4 values that reach the table)
MaxIds == 2
\* number of lines in a response body
MaxLines == 3
\* number of calls of ClipboardMonitor::start
MaxStarts == 2
\* number of insert_clip calls made on the store alone
MaxCaptures == 3
\* number of lines in a text handed to detect_type
MaxTextLines == 5
\* number of provider ids the settings page hands to save_provider
MaxProviders == 3

VARIABLES
    \* ---- clip store and capture loop
    store,            \* rows of table clip_items
    now,              \* chrono::Utc::now()
    nextId,           \* next fresh uuid
    pc,               \* position of the loop thread: "text", "image", "sleep"
    last_text_hash,   \* local of the loop thread
    last_image_hash,  \* local of the loop thread
    emitted,          \* "clipboard-changed" notifications emitted, in order
    \* ---- what the loop saw and got back (read by the properties only)
    seen,             \* hashes the loop has computed
    tobs,             \* result of get_text in the last text check
    tret,             \* result of insert_clip in the last text check ("none": not called)
    iobs,             \* result of get_image in the last image check
    iret              \* result of insert_clip in the last image check ("none": not called)

captureVars == <<store, now, nextId, pc, last_text_hash, last_image_hash, emitted,
                 seen, tobs, tret, iobs, iret>>

VARIABLES
    \* ---- one stream_generate call
    kind,             \* argument kind
    resp,             \* the bytes the server sends as the response body
    pos,              \* how many of them the transport has delivered
    spc,              \* position of the call: "call", "status", "stream", "returned"
    status,           \* HTTP status of the response (0: none yet)
    buffer,           \* local buffer
    full_content,     \* local full_content
    events,           \* StreamChunks emitted as "ai-stream", in order
    result,           \* what the call returned
    requests,         \* HTTP requests sent
    how               \* where the call returned from (read by the properties only)

streamVars == <<kind, resp, pos, spc, status, buffer, full_content, events, result,
                requests, how>>

VARIABLES
    \* ---- ClipboardMonitor and the loop threads its start calls have spawned
    running,          \* ClipboardMonitor.running
    loops             \* per spawned thread: position and the two locals

monitorVars == <<running, loops>>

VARIABLES
    \* ---- the clip store called on its own
    call              \* the last call of a Database method: arguments and result

storeVars == <<call>>

VARIABLES
    \* ---- two ai_generate commands in flight at the same time
    calls,            \* per call: kind, response, position and the call's locals
    sink              \* the StreamChunks the "ai-stream" listener has received, in order

pairVars == <<calls, sink>>

VARIABLES
    \* ---- threads inside Database methods
    lock,             \* Database.conn: the thread that holds the mutex (0: none)
    ops               \* per thread: the method it is in, its position and locals

lockVars == <<lock, ops>>

VARIABLES
    \* ---- detect_type called on its own
    dtext,            \* argument text
    dtype             \* the String it returned ("none": not called yet)

detectVars == <<dtext, dtype>>

VARIABLES
    \* ---- the ai_providers table and the commands on it
    providers,        \* rows of ai_providers (id is the primary key)
    pcall,            \* the last command: its arguments and what it returned
    chosen            \* ai_generate's local provider, an Option<AiProvider>
                      \* (None outside the call)

providerVars == <<providers, pcall, chosen>>

vars == <<captureVars, streamVars, monitorVars, storeVars, pairVars, lockVars,
          detectVars, providerVars>>

\* what the actions of one part of the program leave alone
nonCaptureVars == <<streamVars, monitorVars, storeVars, pairVars, lockVars, detectVars, providerVars>>
nonStreamVars == <<captureVars, monitorVars, storeVars, pairVars, lockVars, detectVars, providerVars>>

\* ------------------------------------------------------------ option values
None == <<>>
Some(x) == <<x>>

\* ------------------------------------------------------------------- texts
\* A text is a sequence of tokens; a token is a run of characters that the
\* code below only ever tests as a whole.
Whitespace == {" ", "\n", "\r"}

RECURSIVE trim_start(_)
trim_start(s) ==
    IF s # <<>> /\ Head(s) \in Whitespace THEN trim_start(Tail(s)) ELSE s

RECURSIVE trim_end(_)
trim_end(s) ==
    IF s # <<>> /\ s[Len(s)] \in Whitespace
    THEN trim_end(SubSeq(s, 1, Len(s) - 1))
    ELSE s

\* str::trim
trim(s) == trim_end(trim_start(s))

is_empty(s) == s = <<>>

contains(s, c) == \E i \in 1..Len(s) : s[i] = c

Schemes == {"http://", "https://", "ftp://"}

code_indicators ==
    {"fn ", "func ", "def ", "class ", "import ", "from ", "#include",
     "const ", "let ", "var ", "function ", "return ", "if (", "for (",
     "while (", "pub fn", "async ", "await ", "=>", "->", "::", "println!",
     "console.log", "System.out", "<?php", "package ", "struct "}

\* str::lines().count() of a trimmed text
line_count(s) ==
    IF s = <<>> THEN 0 ELSE 1 + Cardinality({i \in 1..Len(s) : s[i] = "\n"})

looks_like_code_any_braces(indicator_count, lines, has_braces) ==
    (indicator_count >= 2 /\ lines >= 3) \/ (has_braces /\ lines >= 5)

\* clipboard.rs 127: the condition of the code rule
looks_like_code(indicator_count, lines, has_braces) ==
    \/ (indicator_count >= 2 /\ lines >= 3)
    \/ (has_braces /\ indicator_count >= 1 /\ lines >= 5)

detect_type(text) ==
    LET trimmed == trim(text)
        has_braces == contains(trimmed, "{") /\ contains(trimmed, "}")
        indicator_count == Cardinality({ind \in code_indicators : contains(trimmed, ind)})
    IN  IF trimmed # <<>> /\ Head(trimmed) \in Schemes /\ ~contains(trimmed, "\n")
        THEN "url"
        ELSE IF looks_like_code(indicator_count, line_count(trimmed), has_braces)
             THEN "code"
             ELSE "text"

\* ---- detect_type called on its own
\* the lines of the texts handed to it, and what stands before and after them
DetectLines == {<<"x">>, <<"fn ">>, <<"let ">>, <<"{", "}">>, <<"{">>}

\* texts of n lines, joined by line terminators
RECURSIVE JoinedLines(_)
JoinedLines(n) ==
    IF n = 1 THEN DetectLines
    ELSE {t \o <<"\n">> \o l : t \in JoinedLines(n - 1), l \in DetectLines}

DetectInputs ==
    {<<>>} \cup
    {h \o t \o e : h \in {<<>>, <<" ">>, <<"http://">>, <<"https://">>, <<"ftp://">>,
                           <<"x", "http://">>},
                   e \in {<<>>, <<"\n">>},
                   t \in UNION {JoinedLines(n) : n \in 1..MaxTextLines}}

DetectIdle == dtext = <<>> /\ dtype = "none"

\* clipboard.rs 100-132: one call of detect_type
Detect ==
    /\ dtype = "none"
    /\ dtype' = detect_type(dtext)
    /\ UNCHANGED dtext
    /\ UNCHANGED <<captureVars, streamVars, monitorVars, storeVars, pairVars, lockVars,
                   providerVars>>

DetectNext == Detect

\* ------------------------------------------------------------- AI providers
\* db.rs 286-294: an AiProvider as the settings page can send it; kind, endpoint,
\* model and api_key are stored and returned as given and decide nothing
AiProvider == [id : 1..MaxProviders, name : {"a", "b"}, is_default : BOOLEAN]

ProviderIdle ==
    /\ providers = {}
    /\ pcall = [op |-> "none", id |-> 0, name |-> "", is_default |-> FALSE,
                ret |-> "none", had_default |-> {}]
    /\ chosen = None

\* db.rs 230-247: every row, ORDER BY name; rows of one name come in any order
get_providers(table) ==
    LET n == Cardinality(table)
        rank == [a |-> 1, b |-> 2]
    IN  {s \in [1..n -> table] :
            /\ \A i, j \in 1..n : i # j => s[i] # s[j]
            /\ \A i, j \in 1..n : i < j => rank[s[i].name] <= rank[s[j].name]}

\* Iterator::find: the first element that passes the test, if any; passing is
\* the set of values the closure accepts
find(s, passing) ==
    IF \E i \in 1..Len(s) : s[i] \in passing
    THEN Some(s[CHOOSE i \in 1..Len(s) :
                    s[i] \in passing /\ \A j \in 1..(i - 1) : s[j] \notin passing])
    ELSE None

\* db.rs 251-253 with the flag never cleared
clear_defaults_never(table, provider) == table

\* db.rs 251-253: UPDATE ai_providers SET is_default = 0, run when the argument
\* carries the flag
clear_defaults(table, provider) ==
    IF provider.is_default
    THEN {[q EXCEPT !.is_default = FALSE] : q \in table}
    ELSE table

\* db.rs 254-265: INSERT OR REPLACE on the primary key id
insert_or_replace(table, provider) ==
    {q \in table : q.id # provider.id} \cup {provider}

\* lib.rs 70-76, db.rs 249-267: save_provider; each of the two statements commits
\* on its own and either may fail (the ? at 252 and 265)
UpsertProvider ==
    \E provider \in AiProvider, outcome \in {"ok", "update_failed", "insert_failed"} :
        /\ outcome = "update_failed" => provider.is_default
        /\ providers' =
            CASE outcome = "update_failed" -> providers
              [] outcome = "insert_failed" -> clear_defaults(providers, provider)
              [] OTHER -> insert_or_replace(clear_defaults(providers, provider), provider)
        /\ pcall' = [op |-> "upsert_provider", id |-> provider.id,
                     name |-> provider.name, is_default |-> provider.is_default,
                     ret |-> IF outcome = "ok" THEN "Ok" ELSE "Err",
                     had_default |-> {q.id : q \in {r \in providers : r.is_default}}]
        /\ chosen' = None
        /\ UNCHANGED <<captureVars, streamVars, monitorVars, storeVars, pairVars, lockVars,
                       detectVars>>

\* lib.rs 78-81, db.rs 269-273: delete_provider
DeleteProvider ==
    \E id \in 1..MaxProviders, ok \in BOOLEAN :
        /\ providers' = IF ok THEN {q \in providers : q.id # id} ELSE providers
        /\ pcall' = [op |-> "delete_provider", id |-> id, name |-> "",
                     is_default |-> FALSE, ret |-> IF ok THEN "Ok" ELSE "Err",
                     had_default |-> {q.id : q \in {r \in providers : r.is_default}}]
        /\ chosen' = None
        /\ UNCHANGED <<captureVars, streamVars, monitorVars, storeVars, pairVars, lockVars,
                       detectVars>>

\* lib.rs 115-122: ai_generate picks its provider, by id when provider_id is Some
\* and by the flag otherwise
AiGenerateProvider ==
    \E provider_id \in {None} \cup {Some(i) : i \in 1..MaxProviders} :
        \E list \in get_providers(providers) :
            LET IsPid == {p \in providers : p.id = provider_id[1]}
                IsDefault == {p \in providers : p.is_default}
            IN  /\ chosen' = IF provider_id # None THEN find(list, IsPid)
                                                   ELSE find(list, IsDefault)
                /\ pcall' = [op |-> "ai_generate",
                             id |-> IF provider_id = None THEN 0 ELSE provider_id[1],
                             name |-> "", is_default |-> FALSE,
                             ret |-> IF chosen' = None THEN "Err" ELSE "Ok",
                             had_default |-> {q.id : q \in {r \in providers : r.is_default}}]
                /\ UNCHANGED providers
                /\ UNCHANGED <<captureVars, streamVars, monitorVars, storeVars, pairVars,
                               lockVars, detectVars>>

ProviderNext ==
    \/ UpsertProvider
    \/ DeleteProvider
    \/ AiGenerateProvider

\* ------------------------------------------------------------------ hashing
\* SHA-256 in hex: a non-empty string, equal on equal bytes, taken to be free
\* of collisions on the inputs of the model.
Sha256(bytes) == <<"sha256:">> \o bytes

compute_hash(text) == Sha256(text)

compute_hash_bytes(data) == Sha256(data)

\* String::new()
EmptyString == <<>>

\* ------------------------------------------------------------- clip store
insert_clip_nodedup(rows, item, fail) ==
    IF fail
    THEN [rows |-> rows, ret |-> "Err"]
    ELSE [rows |-> rows \cup {item}, ret |-> "Ok(true)"]

insert_clip_replace(rows, item, fail) ==
    IF fail
    THEN [rows |-> rows, ret |-> "Err"]
    ELSE IF \E r \in rows : r.content_hash = item.content_hash
    THEN [rows |-> {r \in rows : r.content_hash # item.content_hash} \cup {item},
          ret |-> "Ok(false)"]
    ELSE [rows |-> rows \cup {item}, ret |-> "Ok(true)"]

\* Database::insert_clip.  fail: one of its three statements returns an error
\* (each is a single autocommit statement, so the table is left as it was).
insert_clip(rows, item, fail) ==
    LET exists == \E r \in rows : r.content_hash = item.content_hash
    IN  IF fail
        THEN [rows |-> rows, ret |-> "Err"]
        ELSE IF exists
        THEN [rows |-> {IF r.content_hash = item.content_hash
                        THEN [r EXCEPT !.created_at = item.created_at]
                        ELSE r : r \in rows},
              ret |-> "Ok(false)"]
        ELSE IF \E r \in rows : r.id = item.id
        THEN [rows |-> rows, ret |-> "Err"]      \* id TEXT PRIMARY KEY
        ELSE [rows |-> rows \cup {item}, ret |-> "Ok(true)"]

\* Database::delete_clip
delete_clip(rows, id, fail) ==
    IF fail
    THEN [rows |-> rows, ret |-> "Err"]
    ELSE [rows |-> {r \in rows : r.id # id}, ret |-> "Ok"]

toggle_pin_always_pins(rows, id, fail) ==
    IF fail \/ ~\E r \in rows : r.id = id
    THEN [rows |-> rows, ret |-> "Err"]
    ELSE [rows |-> {IF r.id = id THEN [r EXCEPT !.is_pinned = TRUE] ELSE r : r \in rows},
          ret |-> "Ok(true)"]

\* Database::toggle_pin: the UPDATE, then the SELECT of the new flag, which
\* fails with QueryReturnedNoRows when no row has the id.
toggle_pin(rows, id, fail) ==
    LET updated == {IF r.id = id THEN [r EXCEPT !.is_pinned = ~r.is_pinned] ELSE r
                    : r \in rows}
    IN  IF fail
        THEN [rows |-> rows, ret |-> "Err"]
        ELSE IF \E r \in updated : r.id = id
        THEN [rows |-> updated,
              ret |-> IF (CHOOSE r \in updated : r.id = id).is_pinned
                      THEN "Ok(true)" ELSE "Ok(false)"]
        ELSE [rows |-> updated, ret |-> "Err"]

\* ---- timestamps
\* created_at and the sweep's cutoff are TEXT: DateTime<Utc>::to_rfc3339().
\* Time t of the model is midnight UTC of day t counted from Epoch.
Epoch == [year |-> "2024-01-", day |-> 9]

DigitChars == <<"0", "1", "2", "3", "4", "5", "6", "7", "8", "9">>

to_rfc3339_unpadded(t) ==
    LET d == Epoch.day + t
    IN  <<Epoch.year>>
        \o (IF d >= 10 THEN <<DigitChars[(d \div 10) + 1]>> ELSE <<>>)
        \o <<DigitChars[(d % 10) + 1], "T00:00:00+00:00">>

\* chrono's to_rfc3339: fixed-width, zero-padded date fields
to_rfc3339(t) ==
    LET d == Epoch.day + t
    IN  <<Epoch.year, DigitChars[(d \div 10) + 1], DigitChars[(d % 10) + 1],
          "T00:00:00+00:00">>

\* the first byte of a token of a timestamp
Byte(c) ==
    IF \E i \in 1..10 : DigitChars[i] = c
    THEN 47 + (CHOOSE i \in 1..10 : DigitChars[i] = c)
    ELSE IF c = "T00:00:00+00:00" THEN 84 ELSE 50

\* SQLite's comparison of two TEXT values (BINARY collation: memcmp, and a
\* proper prefix is smaller)
RECURSIVE text_lt(_, _)
text_lt(a, b) ==
    IF b = <<>> THEN FALSE
    ELSE IF a = <<>> THEN TRUE
    ELSE IF Head(a) = Head(b) THEN text_lt(Tail(a), Tail(b))
    ELSE Byte(Head(a)) < Byte(Head(b))

\* Database::clear_old_clips
clear_old_clips(rows, keep_days, fail) ==
    LET cutoff_str == to_rfc3339(now - keep_days)
        old == {r \in rows : ~r.is_pinned /\ text_lt(to_rfc3339(r.created_at), cutoff_str)}
    IN  IF fail
        THEN [rows |-> rows, ret |-> <<"Err">>]
        ELSE [rows |-> rows \ old, ret |-> <<"Ok", Cardinality(old)>>]

\* ---- Database::get_clips
\* content LIKE '%s%'
like(content, s) == \E i \in 1..Len(content) : <<content[i]>> = s

\* the WHERE clause built from the two optional filters
where(r, search, clip_type) ==
    /\ (search # None /\ ~is_empty(search[1])) => like(r.content, search[1])
    /\ (clip_type # None /\ clip_type[1] # "" /\ clip_type[1] # "all")
       => r.clip_type = clip_type[1]

order_by_oldest_first(r1, r2) ==
    text_lt(to_rfc3339(r1.created_at), to_rfc3339(r2.created_at))

\* ORDER BY is_pinned DESC, created_at DESC: r1 has to come before r2
order_by(r1, r2) ==
    \/ r1.is_pinned /\ ~r2.is_pinned
    \/ /\ r1.is_pinned = r2.is_pinned
       /\ text_lt(to_rfc3339(r2.created_at), to_rfc3339(r1.created_at))

\* the orders in which the statement may return the rows (rows that ORDER BY
\* does not tell apart come in any order)
Ordered(rows) ==
    {q \in [1..Cardinality(rows) -> rows] :
        /\ \A i, j \in 1..Cardinality(rows) : i # j => q[i] # q[j]
        /\ \A i, j \in 1..Cardinality(rows) : i < j => ~order_by(q[j], q[i])}

\* LIMIT limit OFFSET offset
limit_offset(q, limit, offset) ==
    SubSeq(q, offset + 1, IF offset + limit < Len(q) THEN offset + limit ELSE Len(q))

\* the Vecs get_clips may return
get_clips(rows, search, clip_type, limit, offset) ==
    {limit_offset(q, limit, offset) :
        q \in Ordered({r \in rows : where(r, search, clip_type)})}

\* ------------------------------------------------------------ capture loop
\* what arboard's get_text can return: an error, or the clipboard's text
Texts == {<<"a">>, <<"b">>, <<" ">>, <<>>}
NoTextRead == [ok |-> FALSE, text |-> <<>>]
TextReads == {NoTextRead} \cup {[ok |-> TRUE, text |-> t] : t \in Texts}

\* what get_image can return: an error (also: no image), or the decoded pixels
NoImage == [width |-> 0, height |-> 0, bytes |-> <<>>]
NoImageRead == [ok |-> FALSE, img |-> NoImage]
Images == {[width |-> 1, height |-> 1, bytes |-> <<"p">>]}
ImageReads == {NoImageRead} \cup {[ok |-> TRUE, img |-> i] : i \in Images}

\* get_frontmost_app()
SourceApps == {Some("Safari")}

DimStr == [n \in 0..2 |-> IF n = 0 THEN "0" ELSE IF n = 1 THEN "1" ELSE "2"]

\* save_image's path: images_dir joined with the hash prefix and ".png"
image_file(hash) == <<"images/">> \o hash \o <<".png">>

\* app.emit("clipboard-changed", &item): the payload is the item; the log keeps
\* the two fields that identify it
Notification(item) == [id |-> item.id, content_hash |-> item.content_hash]

read_ok_always(read) == TRUE

\* clipboard.rs 30 and 54: if let Ok(..) = clipboard.get_text() / get_image()
read_ok(read) == read.ok

text_changed_nofilter(text, last) == ~is_empty(trim(text))

text_changed_also_blank(text, last) == compute_hash(text) # last

\* clipboard.rs 31-33: the text is submitted when it is not blank and its hash
\* differs from the last-seen text hash
text_changed(text, last) ==
    ~is_empty(trim(text)) /\ compute_hash(text) # last

image_changed_unless_text(hash, last) == hash # last /\ tret = "none"

\* clipboard.rs 57: the image is new when its hash differs from the last-seen
\* image hash
image_changed(hash, last) == hash # last

should_emit_any_ok(r) == r # "Err"

\* clipboard.rs 46 and 71: if let Ok(true) = db.insert_clip(&item)
should_emit(r) == r = "Ok(true)"

next_last_hash_when_inserted(last, hash, r) == IF r = "Ok(true)" THEN hash ELSE last

\* clipboard.rs 34 and 58: the last-seen hash is assigned before insert_clip is
\* called, whatever insert_clip returns afterwards
next_last_hash(last, hash, r) == hash

\* clipboard.rs 30-51.  The uuid of an item that is not inserted is dropped with
\* the item, so a fresh id is used up only by an insert.
TextCheck ==
    /\ pc = "text"
    /\ \E read \in TextReads, fail \in BOOLEAN, app \in SourceApps :
        LET text == read.text
            hash == compute_hash(text)
            submit == read_ok(read) /\ text_changed(text, last_text_hash)
            item == [id |-> nextId, content |-> text, content_hash |-> hash,
                     clip_type |-> detect_type(text), source_app |-> app,
                     image_path |-> None, is_pinned |-> FALSE, created_at |-> now]
            res == insert_clip(store, item, fail)
        IN  /\ (submit /\ res.ret = "Ok(true)") => nextId <= MaxIds
            /\ IF submit
               THEN /\ last_text_hash' = next_last_hash(last_text_hash, hash, res.ret)
                    /\ store' = res.rows
                    /\ nextId' = IF res.ret = "Ok(true)" THEN nextId + 1 ELSE nextId
                    /\ emitted' = IF should_emit(res.ret)
                                  THEN Append(emitted, Notification(item)) ELSE emitted
                    /\ tret' = res.ret
               ELSE /\ UNCHANGED <<last_text_hash, store, nextId, emitted>>
                    /\ tret' = "none"
            /\ seen' = IF read_ok(read) /\ ~is_empty(trim(text))
                       THEN seen \cup {hash} ELSE seen
            /\ tobs' = read
    /\ pc' = "image"
    /\ UNCHANGED nonCaptureVars
    /\ UNCHANGED <<now, last_image_hash, iobs, iret>>

\* clipboard.rs 54-76.  saved: save_image returned Some(path)
ImageCheck ==
    /\ pc = "image"
    /\ \E read \in ImageReads, saved \in BOOLEAN, fail \in BOOLEAN, app \in SourceApps :
        LET img == read.img
            hash == compute_hash_bytes(img.bytes)
            changed == read_ok(read) /\ image_changed(hash, last_image_hash)
            submit == changed /\ saved
            item == [id |-> nextId,
                     content |-> <<"[img ", DimStr[img.width], "x", DimStr[img.height], "]">>,
                     content_hash |-> hash, clip_type |-> "image", source_app |-> app,
                     image_path |-> Some(image_file(hash)), is_pinned |-> FALSE,
                     created_at |-> now]
            res == insert_clip(store, item, fail)
        IN  /\ (submit /\ res.ret = "Ok(true)") => nextId <= MaxIds
            /\ last_image_hash' = IF changed
                                  THEN next_last_hash(last_image_hash, hash, res.ret)
                                  ELSE last_image_hash
            /\ IF submit
               THEN /\ store' = res.rows
                    /\ nextId' = IF res.ret = "Ok(true)" THEN nextId + 1 ELSE nextId
                    /\ emitted' = IF should_emit(res.ret)
                                  THEN Append(emitted, Notification(item)) ELSE emitted
                    /\ iret' = res.ret
               ELSE /\ UNCHANGED <<store, nextId, emitted>>
                    /\ iret' = "none"
            /\ seen' = IF read_ok(read) THEN seen \cup {hash} ELSE seen
            /\ iobs' = read
    /\ pc' = "sleep"
    /\ UNCHANGED nonCaptureVars
    /\ UNCHANGED <<now, last_text_hash, tobs, tret>>

\* clipboard.rs 78: the sleep, then the next iteration
Sleep ==
    /\ pc = "sleep"
    /\ pc' = "text"
    /\ UNCHANGED nonCaptureVars
    /\ UNCHANGED <<store, now, nextId, last_text_hash, last_image_hash, emitted,
                   seen, tobs, tret, iobs, iret>>

\* the wall clock advances
Tick ==
    /\ now < MaxTime
    /\ now' = now + 1
    /\ UNCHANGED nonCaptureVars
    /\ UNCHANGED <<store, nextId, pc, last_text_hash, last_image_hash, emitted,
                   seen, tobs, tret, iobs, iret>>

Ids == 1..MaxIds

\* lib.rs delete_clip command
DeleteClip ==
    /\ \E id \in Ids, fail \in BOOLEAN :
         store' = delete_clip(store, id, fail).rows
    /\ UNCHANGED nonCaptureVars
    /\ UNCHANGED <<now, nextId, pc, last_text_hash, last_image_hash, emitted,
                   seen, tobs, tret, iobs, iret>>

\* lib.rs toggle_pin command
TogglePin ==
    /\ \E id \in Ids, fail \in BOOLEAN :
         store' = toggle_pin(store, id, fail).rows
    /\ UNCHANGED nonCaptureVars
    /\ UNCHANGED <<now, nextId, pc, last_text_hash, last_image_hash, emitted,
                   seen, tobs, tret, iobs, iret>>

KeepDays == 0..MaxTime

\* lib.rs clear_old_clips command
ClearOldClips ==
    /\ \E keep_days \in KeepDays, fail \in BOOLEAN :
         store' = clear_old_clips(store, keep_days, fail).rows
    /\ UNCHANGED nonCaptureVars
    /\ UNCHANGED <<now, nextId, pc, last_text_hash, last_image_hash, emitted,
                   seen, tobs, tret, iobs, iret>>

\* The application is quit and launched again: the database file is opened as
\* it was left and a new loop thread starts with fresh locals.
Relaunch ==
    /\ pc' = "text"
    /\ last_text_hash' = EmptyString
    /\ last_image_hash' = EmptyString
    /\ tobs' = NoTextRead /\ tret' = "none"
    /\ iobs' = NoImageRead /\ iret' = "none"
    /\ UNCHANGED nonCaptureVars
    /\ UNCHANGED <<store, now, nextId, emitted, seen>>

CaptureInit ==
    /\ store = {}
    /\ now = 0
    /\ nextId = 1
    /\ pc = "text"
    /\ last_text_hash = EmptyString
    /\ last_image_hash = EmptyString
    /\ emitted = <<>>
    /\ seen = {}
    /\ tobs = NoTextRead /\ tret = "none"
    /\ iobs = NoImageRead /\ iret = "none"

\* ------------------------------------------------------- response streams
\* A response body is a sequence of bytes.  One token stands for a run of ASCII
\* bytes; "C3" "A9" are the two bytes of one two-byte UTF-8 character.
\*   "data:" " "   the SSE prefix "data: "
\*   "[DONE]"      the literal [DONE]
\*   "{O:" s "}"   {"choices":[{"delta":{"content":"s"}}]}
\*   "{C:" s "}"   {"type":"content_block_delta","delta":{"text":"s"}}
\*   "{R:" s "}"   {"response":"s","done":false}
\*   ",done}"      in place of "}": the object also has "done":true
\*   "{stop}"      {"type":"message_stop"}
\*   "{done}"      {"done":true}
\*   "{cbd}"       {"type":"content_block_delta","delta":{"partial_json":""}}
\*   "{role}"      {"type":"ping","choices":[{"delta":{"role":"assistant"}}]}
\*   "junk"        text that is not JSON
Utf8Char == "e_acute"
Replacement == "U+FFFD"
StringChars == {"a", Utf8Char, Replacement}

\* String::from_utf8_lossy: a well-formed character is decoded, every byte of
\* an ill-formed or cut-off one becomes U+FFFD
from_utf8_lossy(bytes) ==
    LET F[i \in 1..(Len(bytes) + 1)] ==
            IF i > Len(bytes) THEN <<>>
            ELSE IF bytes[i] = "C3" /\ i < Len(bytes) /\ bytes[i + 1] = "A9"
                 THEN <<Utf8Char>> \o F[i + 2]
            ELSE IF bytes[i] \in {"C3", "A9"} THEN <<Replacement>> \o F[i + 1]
            ELSE <<bytes[i]>> \o F[i + 1]
    IN  F[1]

\* str::find('\n'): the index of the first line terminator, 0 for None
find_newline(s) ==
    IF contains(s, "\n") THEN CHOOSE i \in 1..Len(s) :
                                 s[i] = "\n" /\ \A j \in 1..(i - 1) : s[j] # "\n"
    ELSE 0

\* serde_json::from_str::<Value>, with the fields the adapters index
NotJson == [ok |-> FALSE, content |-> None, type |-> "", text |-> None,
            response |-> None, done |-> FALSE]
from_str(data) ==
    LET js == trim(data)
        n == Len(js)
        str == SubSeq(js, 2, n - 1)
    IN  IF n >= 2 /\ js[1] \in {"{O:", "{C:", "{R:"} /\ js[n] \in {"}", ",done}"}
           /\ \A i \in 1..Len(str) : str[i] \in StringChars
        THEN [ok |-> TRUE,
              content |-> IF js[1] = "{O:" THEN Some(str) ELSE None,
              type |-> IF js[1] = "{C:" THEN "content_block_delta" ELSE "",
              text |-> IF js[1] = "{C:" THEN Some(str) ELSE None,
              response |-> IF js[1] = "{R:" THEN Some(str) ELSE None,
              done |-> js[n] = ",done}"]
        ELSE IF js = <<"{stop}">> THEN [NotJson EXCEPT !.ok = TRUE, !.type = "message_stop"]
        ELSE IF js = <<"{done}">> THEN [NotJson EXCEPT !.ok = TRUE, !.done = TRUE]
        ELSE IF js = <<"{cbd}">> THEN [NotJson EXCEPT !.ok = TRUE, !.type = "content_block_delta"]
        ELSE IF js = <<"{role}">> THEN [NotJson EXCEPT !.ok = TRUE, !.type = "ping"]
        ELSE NotJson

\* line.starts_with("data: ") and &line[6..]
starts_with_data(line) == Len(line) >= 2 /\ line[1] = "data:" /\ line[2] = " "
after_data(line) == SubSeq(line, 3, Len(line))

\* what one line makes an adapter do: push and emit a fragment (frag), then
\* emit Done and return (stop)
Nothing == [frag |-> None, stop |-> FALSE]

openai_line_no_prefix(line) ==
    LET data == IF starts_with_data(line) THEN after_data(line) ELSE line
    IN  IF data = <<"[DONE]">>
        THEN [frag |-> None, stop |-> TRUE]
        ELSE [frag |-> from_str(data).content, stop |-> FALSE]

\* ai.rs 75-87
openai_line(line) ==
    IF starts_with_data(line)
    THEN IF after_data(line) = <<"[DONE]">>
         THEN [frag |-> None, stop |-> TRUE]
         ELSE [frag |-> from_str(after_data(line)).content, stop |-> FALSE]
    ELSE Nothing

claude_line_stops_on_other(line) ==
    IF starts_with_data(line) /\ from_str(after_data(line)).ok
    THEN LET parsed == from_str(after_data(line))
         IN  IF parsed.type = "content_block_delta"
             THEN [frag |-> parsed.text, stop |-> FALSE]
             ELSE [frag |-> None, stop |-> TRUE]
    ELSE Nothing

\* ai.rs 140-158
claude_line(line) ==
    IF starts_with_data(line) /\ from_str(after_data(line)).ok
    THEN LET parsed == from_str(after_data(line))
         IN  IF parsed.type = "content_block_delta"
             THEN [frag |-> parsed.text, stop |-> FALSE]
             ELSE IF parsed.type = "message_stop"
             THEN [frag |-> None, stop |-> TRUE]
             ELSE Nothing
    ELSE Nothing

ollama_line_done_first(line) ==
    IF is_empty(line) THEN Nothing
    ELSE LET parsed == from_str(line)
         IN  IF parsed.ok
             THEN [frag |-> IF parsed.done THEN None ELSE parsed.response,
                   stop |-> parsed.done]
             ELSE Nothing

\* ai.rs 207-219
ollama_line(line) ==
    IF is_empty(line) THEN Nothing
    ELSE LET parsed == from_str(line)
         IN  IF parsed.ok
             THEN [frag |-> parsed.response, stop |-> parsed.done]
             ELSE Nothing

OpenAiKinds == {"openai", "kimi", "minimax"}
every_kind_known == OpenAiKinds \cup {"claude", "ollama", "gemini"}

\* ai.rs 25-27: the kinds the match has an arm for
KnownKinds == OpenAiKinds \cup {"claude", "ollama"}
Kinds == KnownKinds \cup {"gemini"}

handle_line_strict(k, line) ==
    LET data == IF k = "ollama" THEN line
                ELSE IF starts_with_data(line) THEN after_data(line) ELSE <<>>
    IN  IF data # <<>> /\ data # <<"[DONE]">> /\ ~from_str(data).ok
        THEN [frag |-> None, stop |-> TRUE]
        ELSE IF k \in OpenAiKinds THEN openai_line(line)
        ELSE IF k = "claude" THEN claude_line(line)
        ELSE ollama_line(line)

\* ai.rs 24-29: the adapter stream_generate dispatches to
handle_line(k, line) ==
    IF k \in OpenAiKinds THEN openai_line(line)
    ELSE IF k = "claude" THEN claude_line(line)
    ELSE ollama_line(line)

Delta(s) == [content |-> s, done |-> FALSE]
Done == [content |-> <<>>, done |-> TRUE]

push_str_replace(full, delta) == delta

\* full_content.push_str(delta)
push_str(full, delta) == full \o delta

RECURSIVE process_lines_no_return(_, _, _, _)
process_lines_no_return(k, buf, full, evs) ==
    LET line_end == find_newline(buf)
        line == trim(SubSeq(buf, 1, line_end - 1))
        rest == SubSeq(buf, line_end + 1, Len(buf))
        h == handle_line(k, line)
        full2 == IF h.frag # None THEN push_str(full, h.frag[1]) ELSE full
        evs2 == IF h.frag # None THEN Append(evs, Delta(h.frag[1])) ELSE evs
    IN  IF line_end = 0
        THEN [buffer |-> buf, full |-> full, events |-> evs, returned |-> FALSE]
        ELSE process_lines_no_return(k, rest, full2,
                                     IF h.stop THEN Append(evs2, Done) ELSE evs2)

\* ai.rs 71-88, 136-159, 203-220: the inner loop over the complete lines of the
\* buffer; returned: the function returned Ok(full_content) from inside it
RECURSIVE process_lines(_, _, _, _)
process_lines(k, buf, full, evs) ==
    LET line_end == find_newline(buf)
        line == trim(SubSeq(buf, 1, line_end - 1))
        rest == SubSeq(buf, line_end + 1, Len(buf))
        h == handle_line(k, line)
        full2 == IF h.frag # None THEN push_str(full, h.frag[1]) ELSE full
        evs2 == IF h.frag # None THEN Append(evs, Delta(h.frag[1])) ELSE evs
    IN  IF line_end = 0
        THEN [buffer |-> buf, full |-> full, events |-> evs, returned |-> FALSE]
        ELSE IF h.stop
        THEN [buffer |-> rest, full |-> full2, events |-> Append(evs2, Done),
              returned |-> TRUE]
        ELSE process_lines(k, rest, full2, evs2)

\* the lines a server of each wire format sends
SseLines(open) ==
    {<<"data:", " ", open, "a", "}", "\n">>,
     <<open, "a", "}", "\n">>,
     <<"data:", " ", open, "C3", "A9", "}", "\r", "\n">>,
     <<"data:", " ", "{role}", "\n">>,
     <<"data:", " ", "junk", "\n">>,
     <<"\n">>}
LinesOf(k) ==
    IF k \in OpenAiKinds
    THEN SseLines("{O:") \cup {<<"data:", " ", "[DONE]", "\n">>}
    ELSE IF k = "claude"
    THEN SseLines("{C:") \cup {<<"data:", " ", "{stop}", "\n">>,
                               <<"data:", " ", "{cbd}", "\n">>}
    ELSE {<<"{R:", "a", "}", "\n">>,
          <<"{R:", "C3", "A9", "}", "\n">>,
          <<"{R:", "a", ",done}", "\n">>,
          <<"{done}", "\n">>,
          <<"junk", "\n">>,
          <<"\n">>}

RECURSIVE Bodies(_, _)
Bodies(k, n) ==
    IF n = 0 THEN {<<>>}
    ELSE Bodies(k, n - 1) \cup
         {b \o l : b \in Bodies(k, n - 1), l \in LinesOf(k)}

Statuses == {200, 500}
ErrorBody == <<"overloaded">>

is_success_not_an_error(code) == 200 <= code

\* reqwest StatusCode::is_success
is_success(code) == 200 <= code /\ code <= 299

NoResult == [tag |-> "none", text |-> <<>>, what |-> "", code |-> 0]
Ok(text) == [tag |-> "Ok", text |-> text, what |-> "", code |-> 0]
Err(what, code, text) == [tag |-> "Err", text |-> text, what |-> what, code |-> code]

\* ai.rs 24-29: no adapter for the kind
UnknownKind ==
    /\ spc = "call" /\ kind \notin KnownKinds
    /\ spc' = "returned"
    /\ how' = "unknown_kind"
    /\ result' = Err("Unknown provider kind", 0, <<>>)
    /\ UNCHANGED <<kind, resp, pos, status, buffer, full_content, events, requests>>
    /\ UNCHANGED nonStreamVars

\* ai.rs 46-54: send().await fails
ConnectError ==
    /\ spc = "call" /\ kind \in KnownKinds
    /\ requests' = requests + 1
    /\ spc' = "returned"
    /\ how' = "connect"
    /\ result' = Err("Request failed", 0, <<>>)
    /\ UNCHANGED <<kind, resp, pos, status, buffer, full_content, events>>
    /\ UNCHANGED nonStreamVars

\* ai.rs 46-54: send().await returns the response head
Respond ==
    /\ spc = "call" /\ kind \in KnownKinds
    /\ requests' = requests + 1
    /\ \E code \in Statuses : status' = code
    /\ spc' = "status"
    /\ UNCHANGED <<kind, resp, pos, buffer, full_content, events, result, how>>
    /\ UNCHANGED nonStreamVars

\* ai.rs 56-60: response.text().await.unwrap_or_default() is the body, or the
\* empty string when the body cannot be read
ApiError ==
    /\ spc = "status" /\ ~is_success(status)
    /\ \E text \in {ErrorBody, EmptyString} :
         result' = Err("API error", status, text)
    /\ spc' = "returned"
    /\ how' = "status"
    /\ UNCHANGED <<kind, resp, pos, status, buffer, full_content, events, requests>>
    /\ UNCHANGED nonStreamVars

\* ai.rs 62-65
BeginStream ==
    /\ spc = "status" /\ is_success(status)
    /\ spc' = "stream"
    /\ full_content' = <<>>
    /\ buffer' = <<>>
    /\ UNCHANGED <<kind, resp, pos, status, events, result, requests, how>>
    /\ UNCHANGED nonStreamVars

\* ai.rs 67-88: stream.next() yields the next n bytes
Chunk ==
    /\ spc = "stream"
    /\ \E n \in 1..(Len(resp) - pos) :
        \E input \in {buffer \o from_utf8_lossy(SubSeq(resp, pos + 1, pos + n))} :
        \E r \in {process_lines(kind, input, full_content, events)} :
            /\ pos' = pos + n
            /\ buffer' = r.buffer
            /\ full_content' = r.full
            /\ events' = r.events
            /\ IF r.returned
               THEN spc' = "returned" /\ how' = "marker" /\ result' = Ok(r.full)
               ELSE UNCHANGED <<spc, how, result>>
    /\ UNCHANGED <<kind, resp, status, requests>>
    /\ UNCHANGED nonStreamVars

at_stream_error_partial(full) == Ok(full)

\* ai.rs 68: chunk.map_err(..)?
at_stream_error(full) == Err("Stream error", 0, <<>>)

\* ai.rs 68: stream.next() yields an error
ChunkError ==
    /\ spc = "stream"
    /\ spc' = "returned"
    /\ how' = "stream_error"
    /\ result' = at_stream_error(full_content)
    /\ UNCHANGED <<kind, resp, pos, status, buffer, full_content, events, requests>>
    /\ UNCHANGED nonStreamVars

at_stream_end_error(full, evs) ==
    [events |-> evs, result |-> Err("Stream error", 0, <<>>)]

\* ai.rs 91-92
at_stream_end(full, evs) ==
    [events |-> Append(evs, Done), result |-> Ok(full)]

CloseParsesRemainder ==
    /\ spc = "stream"
    /\ spc' = "returned"
    /\ how' = "eof"
    /\ \E r \in {process_lines(kind, buffer \o <<"\n">>, full_content, events)} :
         /\ events' = IF r.returned THEN r.events ELSE Append(r.events, Done)
         /\ result' = Ok(r.full)
    /\ UNCHANGED <<kind, resp, pos, status, buffer, full_content, requests>>
    /\ UNCHANGED nonStreamVars

\* ai.rs 67, 91-92: stream.next() yields None: the transport has closed, after
\* the whole body or before it
Close ==
    /\ spc = "stream"
    /\ spc' = "returned"
    /\ how' = "eof"
    /\ events' = at_stream_end(full_content, events).events
    /\ result' = at_stream_end(full_content, events).result
    /\ UNCHANGED <<kind, resp, pos, status, buffer, full_content, requests>>
    /\ UNCHANGED nonStreamVars

StreamIdle ==
    /\ kind = "openai" /\ resp = <<>> /\ pos = 0 /\ spc = "idle" /\ status = 0
    /\ buffer = <<>> /\ full_content = <<>> /\ events = <<>>
    /\ result = NoResult /\ requests = 0 /\ how = "none"

StreamInit ==
    /\ kind \in Kinds
    /\ resp \in Bodies(kind, MaxLines)
    /\ pos = 0 /\ spc = "call" /\ status = 0
    /\ buffer = <<>> /\ full_content = <<>> /\ events = <<>>
    /\ result = NoResult /\ requests = 0 /\ how = "none"

\* ------------------------------------------ two generate calls in flight
\* ai_generate is an async command: a second command can start while the first
\* awaits its next chunk
Calls == {1, 2}

\* the responses the two servers send: a fragment and the terminal marker, or
\* a longer fragment and no marker
PairBodies(k) ==
    IF k \in OpenAiKinds
    THEN {<<"data:", " ", "{O:", "a", "}", "\n", "data:", " ", "[DONE]", "\n">>,
          <<"data:", " ", "{O:", "a", "a", "}", "\n">>}
    ELSE {<<"{R:", "a", "}", "\n", "{done}", "\n">>,
          <<"{R:", "a", "a", "}", "\n">>}

NoGenerate ==
    [kind |-> "openai", resp |-> <<>>, pos |-> 0, spc |-> "idle", buffer |-> <<>>,
     full_content |-> <<>>, events |-> <<>>, pending |-> <<>>, result |-> NoResult]

shared_buffer(i) == calls[1].buffer

\* ai.rs 65: let mut buffer = String::new(), a local of the call
own_buffer(i) == calls[i].buffer

\* ai.rs 46-65: the request is sent, the response has a 2xx status, and the
\* call's locals are created
CallBegin(i) ==
    /\ calls[i].spc = "call"
    /\ calls' = [calls EXCEPT ![i].spc = "stream", ![i].buffer = <<>>,
                              ![i].full_content = <<>>]
    /\ UNCHANGED sink
    /\ UNCHANGED <<captureVars, streamVars, monitorVars, storeVars, lockVars, detectVars, providerVars>>

\* ai.rs 67-88, in call i: stream.next() yields the next n bytes
CallChunk(i) ==
    /\ calls[i].spc = "stream" /\ calls[i].pending = <<>>
    /\ \E n \in 1..(Len(calls[i].resp) - calls[i].pos) :
        LET c == calls[i]
            chunk == SubSeq(c.resp, c.pos + 1, c.pos + n)
            r == process_lines(c.kind, own_buffer(i) \o from_utf8_lossy(chunk),
                               c.full_content, c.events)
        IN  calls' = [calls EXCEPT
                        ![i].pos = c.pos + n,
                        ![i].buffer = r.buffer,
                        ![i].full_content = r.full,
                        ![i].events = r.events,
                        ![i].pending = SubSeq(r.events, Len(c.events) + 1, Len(r.events)),
                        ![i].spc = IF r.returned THEN "returned" ELSE "stream",
                        ![i].result = IF r.returned THEN Ok(r.full) ELSE c.result]
    /\ UNCHANGED sink
    /\ UNCHANGED <<captureVars, streamVars, monitorVars, storeVars, lockVars, detectVars, providerVars>>

\* ai.rs 68, in call i
CallChunkError(i) ==
    /\ calls[i].spc = "stream" /\ calls[i].pending = <<>>
    /\ calls' = [calls EXCEPT ![i].spc = "returned",
                              ![i].result = at_stream_error(calls[i].full_content)]
    /\ UNCHANGED sink
    /\ UNCHANGED <<captureVars, streamVars, monitorVars, storeVars, lockVars, detectVars, providerVars>>

\* ai.rs 91-92, in call i
CallClose(i) ==
    /\ calls[i].spc = "stream" /\ calls[i].pending = <<>>
    /\ LET e == at_stream_end(calls[i].full_content, calls[i].events)
       IN  calls' = [calls EXCEPT ![i].spc = "returned", ![i].events = e.events,
                                 ![i].pending = SubSeq(e.events, Len(calls[i].events) + 1,
                                                       Len(e.events)),
                                 ![i].result = e.result]
    /\ UNCHANGED sink
    /\ UNCHANGED <<captureVars, streamVars, monitorVars, storeVars, lockVars, detectVars, providerVars>>

emit_in_front(received, chunk) == <<chunk>> \o received

\* app.emit("ai-stream", StreamChunk {..}): the listener receives the payload
\* after those emitted before it
emit(received, chunk) == Append(received, chunk)

\* ai.rs 78, 84, 91, in call i: the next app.emit of the lines being processed;
\* the two calls run on different tasks, so their emits interleave one by one
CallEmit(i) ==
    /\ calls[i].pending # <<>>
    /\ sink' = emit(sink, Head(calls[i].pending))
    /\ calls' = [calls EXCEPT ![i].pending = Tail(calls[i].pending)]
    /\ UNCHANGED <<captureVars, streamVars, monitorVars, storeVars, lockVars, detectVars, providerVars>>

PairIdle == calls = [i \in Calls |-> NoGenerate] /\ sink = <<>>

PairStart ==
    /\ calls \in [Calls -> {[NoGenerate EXCEPT !.kind = k, !.resp = b, !.spc = "call"]
                              : k \in {"openai", "ollama"},
                                b \in PairBodies("openai") \cup PairBodies("ollama")}]
    /\ \A i \in Calls : calls[i].resp \in PairBodies(calls[i].kind)
    /\ sink = <<>>

PairNext ==
    \/ \E i \in Calls : CallBegin(i)
    \/ \E i \in Calls : CallChunk(i)
    \/ \E i \in Calls : CallChunkError(i)
    \/ \E i \in Calls : CallClose(i)
    \/ \E i \in Calls : CallEmit(i)

\* ------------------------------------------- threads inside Database methods
\* the loop thread and a thread serving a command
Callers == {1, 2}

NoOp ==
    [op |-> "none", pc |-> "idle", text |-> <<>>, id |-> 0, created_at |-> 0,
     exists |-> FALSE, ret |-> "none", count |-> 0]

\* the thread is back in its caller with the method's result (count: the rows
\* a sweep deleted, or the length of the Vec a query returned)
Returned(o, ret, count) == [NoOp EXCEPT !.op = o.op, !.ret = ret, !.count = count]

mutex_never_held(l) == TRUE

\* self.conn.lock(): the call goes on when no thread holds the mutex
mutex_free(l) == l = 0

\* db.rs 90-94: SELECT EXISTS(SELECT 1 FROM clip_items WHERE content_hash = ?1)
select_exists(rows, hash) == \E r \in rows : r.content_hash = hash

\* db.rs 97-100: UPDATE clip_items SET created_at = ?1 WHERE content_hash = ?2
update_created_at(rows, t, hash) ==
    {IF r.content_hash = hash THEN [r EXCEPT !.created_at = t] ELSE r : r \in rows}

\* db.rs 102-115: the INSERT, which the UNIQUE and PRIMARY KEY constraints of
\* the table (db.rs 26-28) reject
insert_row(rows, item) ==
    IF \E r \in rows : r.content_hash = item.content_hash \/ r.id = item.id
    THEN [rows |-> rows, ret |-> "Err(constraint)"]
    ELSE [rows |-> rows \cup {item}, ret |-> "Ok(true)"]

\* db.rs 175-178: the UPDATE of toggle_pin
toggle_update(rows, id) ==
    {IF r.id = id THEN [r EXCEPT !.is_pinned = ~r.is_pinned] ELSE r : r \in rows}

\* db.rs 179-183: the SELECT of toggle_pin
toggle_select(rows, id) ==
    IF \E r \in rows : r.id = id
    THEN IF (CHOOSE r \in rows : r.id = id).is_pinned THEN "Ok(true)" ELSE "Ok(false)"
    ELSE "Err"

\* the text item the caller of insert_clip has built (clipboard.rs 36-45)
ItemOf(o) ==
    [id |-> o.id, content |-> o.text, content_hash |-> compute_hash(o.text),
     clip_type |-> detect_type(o.text), source_app |-> Some("Safari"),
     image_path |-> None, is_pinned |-> FALSE, created_at |-> o.created_at]

\* thread t calls a Database method and arrives at conn.lock(); the caller of
\* insert_clip has built the item, with a fresh uuid, before the call
Invoke(t) ==
    /\ ops[t].pc = "idle"
    /\ \/ /\ nextId <= MaxIds
          /\ \E text \in {<<"a">>, <<"b">>} :
               ops' = [ops EXCEPT ![t] = [NoOp EXCEPT !.op = "insert_clip", !.pc = "wait",
                                                      !.text = text, !.id = nextId,
                                                      !.created_at = now]]
          /\ nextId' = nextId + 1
       \/ /\ \E op \in {"delete_clip", "toggle_pin"}, id \in Ids :
               ops' = [ops EXCEPT ![t] = [NoOp EXCEPT !.op = op, !.pc = "wait", !.id = id]]
          /\ UNCHANGED nextId
       \/ /\ \E op \in {"clear_old_clips", "get_clips"} :
               ops' = [ops EXCEPT ![t] = [NoOp EXCEPT !.op = op, !.pc = "wait"]]
          /\ UNCHANGED nextId
    /\ UNCHANGED <<lock, store, now, pc, last_text_hash, last_image_hash, emitted,
                   seen, tobs, tret, iobs, iret>>
    /\ UNCHANGED <<streamVars, monitorVars, storeVars, pairVars, detectVars, providerVars>>

\* what a thread's step inside a method leaves alone
LockFrame ==
    /\ UNCHANGED <<now, nextId, pc, last_text_hash, last_image_hash, emitted,
                   seen, tobs, tret, iobs, iret>>
    /\ UNCHANGED <<streamVars, monitorVars, storeVars, pairVars, detectVars, providerVars>>

\* db.rs 88-94: insert_clip takes the mutex and runs the existence check
InsertCheck(t) ==
    /\ ops[t].pc = "wait" /\ ops[t].op = "insert_clip"
    /\ mutex_free(lock)
    /\ \E fail \in BOOLEAN :
         IF fail
         THEN /\ ops' = [ops EXCEPT ![t] = Returned(ops[t], "Err", 0)]
              /\ lock' = 0
         ELSE /\ ops' = [ops EXCEPT ![t].pc = "checked",
                                    ![t].exists = select_exists(store, compute_hash(ops[t].text))]
              /\ lock' = t
    /\ UNCHANGED store
    /\ LockFrame

\* db.rs 95-116: the UPDATE or the INSERT, the return, and the guard dropped
InsertWrite(t) ==
    /\ ops[t].pc = "checked"
    /\ \E fail \in BOOLEAN :
         LET item == ItemOf(ops[t])
             ins == insert_row(store, item)
         IN  IF fail
             THEN /\ ops' = [ops EXCEPT ![t] = Returned(ops[t], "Err", 0)]
                  /\ UNCHANGED store
             ELSE IF ops[t].exists
             THEN /\ store' = update_created_at(store, item.created_at, item.content_hash)
                  /\ ops' = [ops EXCEPT ![t] = Returned(ops[t], "Ok(false)", 0)]
             ELSE /\ store' = ins.rows
                  /\ ops' = [ops EXCEPT ![t] = Returned(ops[t], ins.ret, 0)]
    /\ lock' = 0
    /\ LockFrame

\* db.rs 174-178: toggle_pin takes the mutex and runs the UPDATE
ToggleUpdate(t) ==
    /\ ops[t].pc = "wait" /\ ops[t].op = "toggle_pin"
    /\ mutex_free(lock)
    /\ \E fail \in BOOLEAN :
         IF fail
         THEN /\ ops' = [ops EXCEPT ![t] = Returned(ops[t], "Err", 0)]
              /\ lock' = 0
              /\ UNCHANGED store
         ELSE /\ ops' = [ops EXCEPT ![t].pc = "updated"]
              /\ lock' = t
              /\ store' = toggle_update(store, ops[t].id)
    /\ LockFrame

\* db.rs 179-184: the SELECT, the return, and the guard dropped
ToggleSelect(t) ==
    /\ ops[t].pc = "updated"
    /\ \E fail \in BOOLEAN :
         ops' = [ops EXCEPT ![t] = Returned(ops[t], IF fail THEN "Err"
                                                    ELSE toggle_select(store, ops[t].id), 0)]
    /\ lock' = 0
    /\ UNCHANGED store
    /\ LockFrame

\* db.rs 167-171, 187-196, 119-165: the methods of one statement
OneStatement(t) ==
    /\ ops[t].pc = "wait" /\ ops[t].op \in {"delete_clip", "clear_old_clips", "get_clips"}
    /\ mutex_free(lock)
    /\ \E fail \in BOOLEAN :
         IF ops[t].op = "delete_clip"
         THEN LET res == delete_clip(store, ops[t].id, fail)
              IN  /\ store' = res.rows
                  /\ ops' = [ops EXCEPT ![t] = Returned(ops[t], res.ret, 0)]
         ELSE IF ops[t].op = "clear_old_clips"
         THEN LET res == clear_old_clips(store, 0, fail)
              IN  /\ store' = res.rows
                  /\ ops' = [ops EXCEPT ![t] = Returned(ops[t], res.ret[1],
                                                        IF fail THEN 0 ELSE res.ret[2])]
         ELSE /\ UNCHANGED store
              /\ IF fail
                 THEN ops' = [ops EXCEPT ![t] = Returned(ops[t], "Err", 0)]
                 ELSE \E v \in get_clips(store, None, None, 100, 0) :
                        ops' = [ops EXCEPT ![t] = Returned(ops[t], "Ok", Len(v))]
    /\ lock' = 0
    /\ LockFrame

\* the wall clock advances while threads are inside methods
LockTick ==
    /\ now < MaxTime
    /\ now' = now + 1
    /\ UNCHANGED <<store, nextId, pc, last_text_hash, last_image_hash, emitted,
                   seen, tobs, tret, iobs, iret>>
    /\ UNCHANGED <<streamVars, monitorVars, storeVars, pairVars, lockVars, detectVars, providerVars>>

LockIdle ==
    /\ lock = 0
    /\ ops = [t \in Callers |-> NoOp]

LockNext ==
    \/ \E t \in Callers : Invoke(t)
    \/ \E t \in Callers : InsertCheck(t)
    \/ \E t \in Callers : InsertWrite(t)
    \/ \E t \in Callers : ToggleUpdate(t)
    \/ \E t \in Callers : ToggleSelect(t)
    \/ \E t \in Callers : OneStatement(t)
    \/ LockTick

\* ------------------------------------------- the clip store called on its own
NoCall ==
    [op |-> "none", id |-> 0, hash |-> <<>>, keep_days |-> 0,
     search |-> None, clip_type |-> None, limit |-> 0, offset |-> 0,
     tag |-> "none", flag |-> FALSE, count |-> 0, items |-> <<>>]

\* the Ok value of a Result<bool, _> that the store's operators give as a string
Flag(ret) == ret = "Ok(true)"
Tag(ret) == IF ret = "Err" THEN "Err" ELSE "Ok"

StoreIds == 1..MaxCaptures

\* get_frontmost_app() at a capture of the text: the name of the frontmost
\* application, or None
StoreApps(text) == IF text = <<"a">> THEN {Some("Safari"), None} ELSE SourceApps

\* the items the loop builds (clipboard.rs 36-45 and 61-70) from a text or an
\* image, with id and created_at as given
ItemsAt(id, t) ==
    UNION {{[id |-> id, content |-> text, content_hash |-> compute_hash(text),
             clip_type |-> detect_type(text), source_app |-> app,
             image_path |-> None, is_pinned |-> FALSE, created_at |-> t]
               : app \in StoreApps(text)} : text \in {<<"a">>, <<"b">>}}
    \cup
    {[id |-> id,
      content |-> <<"[img ", DimStr[img.width], "x", DimStr[img.height], "]">>,
      content_hash |-> compute_hash_bytes(img.bytes), clip_type |-> "image",
      source_app |-> app,
      image_path |-> Some(image_file(compute_hash_bytes(img.bytes))),
      is_pinned |-> FALSE, created_at |-> t]
        : img \in Images, app \in SourceApps}

\* Database::insert_clip, called with an item built at the clock's reading;
\* each capture reads the clock later than the one before
InsertClipCall ==
    /\ now < MaxCaptures
    /\ \E item \in ItemsAt(nextId, now), fail \in BOOLEAN :
        LET res == insert_clip(store, item, fail)
        IN  /\ store' = res.rows
            /\ nextId' = IF res.ret = "Ok(true)" THEN nextId + 1 ELSE nextId
            /\ call' = [NoCall EXCEPT !.op = "insert_clip", !.hash = item.content_hash,
                                     !.tag = Tag(res.ret), !.flag = Flag(res.ret)]
    /\ now' = now + 1
    /\ UNCHANGED <<pc, last_text_hash, last_image_hash, emitted, seen, tobs, tret, iobs, iret>>
    /\ UNCHANGED <<streamVars, monitorVars, pairVars, lockVars, detectVars, providerVars>>

\* search and clip_type as the front end passes them
Filters == {<<None, None>>, <<Some(<<>>), Some("all")>>,
            <<Some(<<"a">>), None>>, <<None, Some("image")>>}
Limits == {1, 100}
Offsets == {0, 1}

\* Database::get_clips
GetClipsCall ==
    /\ \E f \in Filters, limit \in Limits, offset \in Offsets, fail \in BOOLEAN :
        LET search == f[1]
            clip_type == f[2]
            args == [NoCall EXCEPT !.op = "get_clips", !.search = search,
                                   !.clip_type = clip_type, !.limit = limit,
                                   !.offset = offset]
        IN
        IF fail
        THEN call' = [args EXCEPT !.tag = "Err"]
        ELSE \E v \in get_clips(store, search, clip_type, limit, offset) :
               call' = [args EXCEPT !.tag = "Ok", !.items = v]
    /\ UNCHANGED <<captureVars, streamVars, monitorVars, pairVars, lockVars, detectVars, providerVars>>

\* Database::delete_clip
DeleteClipCall ==
    /\ \E id \in StoreIds, fail \in BOOLEAN :
        LET res == delete_clip(store, id, fail)
        IN  /\ store' = res.rows
            /\ call' = [NoCall EXCEPT !.op = "delete_clip", !.id = id, !.tag = Tag(res.ret)]
    /\ UNCHANGED <<now, nextId, pc, last_text_hash, last_image_hash, emitted,
                   seen, tobs, tret, iobs, iret>>
    /\ UNCHANGED <<streamVars, monitorVars, pairVars, lockVars, detectVars, providerVars>>

\* Database::toggle_pin
TogglePinCall ==
    /\ \E id \in StoreIds, fail \in BOOLEAN :
        LET res == toggle_pin(store, id, fail)
        IN  /\ store' = res.rows
            /\ call' = [NoCall EXCEPT !.op = "toggle_pin", !.id = id,
                                     !.tag = Tag(res.ret), !.flag = Flag(res.ret)]
    /\ UNCHANGED <<now, nextId, pc, last_text_hash, last_image_hash, emitted,
                   seen, tobs, tret, iobs, iret>>
    /\ UNCHANGED <<streamVars, monitorVars, pairVars, lockVars, detectVars, providerVars>>

\* Database::clear_old_clips
ClearOldClipsCall ==
    /\ \E keep_days \in KeepDays, fail \in BOOLEAN :
        LET res == clear_old_clips(store, keep_days, fail)
        IN  /\ store' = res.rows
            /\ call' = [NoCall EXCEPT !.op = "clear_old_clips", !.keep_days = keep_days,
                                     !.tag = res.ret[1],
                                     !.count = IF res.ret[1] = "Ok" THEN res.ret[2] ELSE 0]
    /\ UNCHANGED <<now, nextId, pc, last_text_hash, last_image_hash, emitted,
                   seen, tobs, tret, iobs, iret>>
    /\ UNCHANGED <<streamVars, monitorVars, pairVars, lockVars, detectVars, providerVars>>

StoreIdle == call = NoCall

StoreNext ==
    \/ InsertClipCall
    \/ GetClipsCall
    \/ DeleteClipCall
    \/ TogglePinCall
    \/ ClearOldClipsCall

\* ------------------------------------------------- ClipboardMonitor start/stop
Threads == 1..MaxStarts

\* a thread that no start call has spawned yet
NoLoop == [pc |-> "none", last_text_hash |-> EmptyString, last_image_hash |-> EmptyString]

loop_condition_forever(r) == TRUE

\* clipboard.rs 28: while running.load(Ordering::SeqCst)
loop_condition(r) == r

Live(t) == loops[t].pc \notin {"none", "exited"}

\* clipboard.rs 19-26: start stores true in the flag and spawns a new thread,
\* which begins at the loop condition with empty last-seen hashes
Start ==
    /\ \E t \in Threads :
         /\ loops[t].pc = "none"
         /\ \A u \in Threads : u < t => loops[u].pc # "none"
         /\ loops' = [loops EXCEPT ![t] = [NoLoop EXCEPT !.pc = "head"]]
    /\ running' = TRUE
    /\ UNCHANGED <<captureVars, streamVars, storeVars, pairVars, lockVars, detectVars, providerVars>>

\* clipboard.rs 83-85
Stop ==
    /\ running' = FALSE
    /\ UNCHANGED <<loops, captureVars, streamVars, storeVars, pairVars, lockVars, detectVars, providerVars>>

\* clipboard.rs 28: the loop condition is evaluated
LoopHead(t) ==
    /\ loops[t].pc = "head"
    /\ loops' = [loops EXCEPT ![t].pc = IF loop_condition(running) THEN "text" ELSE "exited"]
    /\ UNCHANGED <<running, captureVars, streamVars, storeVars, pairVars, lockVars, detectVars, providerVars>>

\* what get_text returns to the loop threads: an error, or one text
LoopTextReads == {NoTextRead, [ok |-> TRUE, text |-> <<"a">>]}

\* clipboard.rs 30-51, in thread t
LoopText(t) ==
    /\ loops[t].pc = "text"
    /\ \E read \in LoopTextReads, fail \in BOOLEAN, app \in SourceApps :
        LET text == read.text
            hash == compute_hash(text)
            last == loops[t].last_text_hash
            submit == read_ok(read) /\ text_changed(text, last)
            item == [id |-> nextId, content |-> text, content_hash |-> hash,
                     clip_type |-> detect_type(text), source_app |-> app,
                     image_path |-> None, is_pinned |-> FALSE, created_at |-> now]
            res == insert_clip(store, item, fail)
        IN  /\ (submit /\ res.ret = "Ok(true)") => nextId <= MaxIds
            /\ loops' = [loops EXCEPT
                           ![t].pc = "image",
                           ![t].last_text_hash =
                               IF submit THEN next_last_hash(last, hash, res.ret) ELSE last]
            /\ IF submit
               THEN /\ store' = res.rows
                    /\ nextId' = IF res.ret = "Ok(true)" THEN nextId + 1 ELSE nextId
                    /\ emitted' = IF should_emit(res.ret)
                                  THEN Append(emitted, Notification(item)) ELSE emitted
               ELSE UNCHANGED <<store, nextId, emitted>>
    /\ UNCHANGED <<running, streamVars, storeVars, pairVars, lockVars, detectVars, providerVars>>
    /\ UNCHANGED <<now, pc, last_text_hash, last_image_hash, seen, tobs, tret, iobs, iret>>

\* clipboard.rs 54-76, in thread t
LoopImage(t) ==
    /\ loops[t].pc = "image"
    /\ \E read \in ImageReads, saved \in BOOLEAN, fail \in BOOLEAN, app \in SourceApps :
        LET img == read.img
            hash == compute_hash_bytes(img.bytes)
            last == loops[t].last_image_hash
            changed == read_ok(read) /\ image_changed(hash, last)
            submit == changed /\ saved
            item == [id |-> nextId,
                     content |-> <<"[img ", DimStr[img.width], "x", DimStr[img.height], "]">>,
                     content_hash |-> hash, clip_type |-> "image", source_app |-> app,
                     image_path |-> Some(image_file(hash)), is_pinned |-> FALSE,
                     created_at |-> now]
            res == insert_clip(store, item, fail)
        IN  /\ (submit /\ res.ret = "Ok(true)") => nextId <= MaxIds
            /\ loops' = [loops EXCEPT
                           ![t].pc = "sleep",
                           ![t].last_image_hash =
                               IF changed THEN next_last_hash(last, hash, res.ret) ELSE last]
            /\ IF submit
               THEN /\ store' = res.rows
                    /\ nextId' = IF res.ret = "Ok(true)" THEN nextId + 1 ELSE nextId
                    /\ emitted' = IF should_emit(res.ret)
                                  THEN Append(emitted, Notification(item)) ELSE emitted
               ELSE UNCHANGED <<store, nextId, emitted>>
    /\ UNCHANGED <<running, streamVars, storeVars, pairVars, lockVars, detectVars, providerVars>>
    /\ UNCHANGED <<now, pc, last_text_hash, last_image_hash, seen, tobs, tret, iobs, iret>>

\* clipboard.rs 78: the sleep ends and the loop condition is next
LoopSleep(t) ==
    /\ loops[t].pc = "sleep"
    /\ loops' = [loops EXCEPT ![t].pc = "head"]
    /\ UNCHANGED <<running, captureVars, streamVars, storeVars, pairVars, lockVars, detectVars, providerVars>>

LoopStep(t) == LoopHead(t) \/ LoopText(t) \/ LoopImage(t) \/ LoopSleep(t)

MonitorIdle ==
    /\ running = FALSE
    /\ loops = [t \in Threads |-> NoLoop]

MonitorNext ==
    \/ Start
    \/ Stop
    \/ \E t \in Threads : LoopHead(t)
    \/ \E t \in Threads : LoopText(t)
    \/ \E t \in Threads : LoopImage(t)
    \/ \E t \in Threads : LoopSleep(t)

MonitorInit == CaptureInit /\ StreamIdle /\ MonitorIdle /\ StoreIdle /\ PairIdle /\ LockIdle /\ DetectIdle
    /\ ProviderIdle

\* ClipboardMonitor::new, then any start and stop calls, with the loop threads
MonitorSpec == MonitorInit /\ [][MonitorNext]_vars

\* the scheduler runs every loop thread, and every sleep ends
MonitorLiveSpec == MonitorSpec /\ \A t \in Threads : WF_vars(LoopStep(t))

StoreInit == CaptureInit /\ StreamIdle /\ MonitorIdle /\ StoreIdle /\ PairIdle /\ LockIdle /\ DetectIdle
    /\ ProviderIdle

\* the Database methods called one after another on one store
StoreSpec == StoreInit /\ [][StoreNext]_vars

PairInit == CaptureInit /\ StreamIdle /\ MonitorIdle /\ StoreIdle /\ PairStart /\ LockIdle /\ DetectIdle
    /\ ProviderIdle

\* two ai_generate commands, their chunks arriving in any interleaving
PairSpec == PairInit /\ [][PairNext]_vars

LockInit == CaptureInit /\ StreamIdle /\ MonitorIdle /\ StoreIdle /\ PairIdle /\ LockIdle /\ DetectIdle
    /\ ProviderIdle

\* two threads calling the Database methods at the same time
LockSpec == LockInit /\ [][LockNext]_vars

DetectInit ==
    /\ CaptureInit /\ StreamIdle /\ MonitorIdle /\ StoreIdle /\ PairIdle /\ LockIdle
    /\ dtext \in DetectInputs /\ dtype = "none"
    /\ ProviderIdle

\* detect_type applied to each text of DetectInputs
DetectSpec == DetectInit /\ [][DetectNext]_vars

ProviderInit ==
    /\ CaptureInit /\ StreamIdle /\ MonitorIdle /\ StoreIdle /\ PairIdle /\ LockIdle
    /\ DetectIdle
    /\ ProviderIdle

\* the provider commands called one after another on a new database
ProviderSpec == ProviderInit /\ [][ProviderNext]_vars

StreamNext ==
    \/ UnknownKind
    \/ ConnectError
    \/ Respond
    \/ ApiError
    \/ BeginStream
    \/ Chunk
    \/ ChunkError
    \/ Close

StreamSpecInit == CaptureInit /\ StreamInit /\ MonitorIdle /\ StoreIdle /\ PairIdle /\ LockIdle /\ DetectIdle
    /\ ProviderIdle

StreamSpec == StreamSpecInit /\ [][StreamNext]_vars

Init == CaptureInit /\ StreamIdle /\ MonitorIdle /\ StoreIdle /\ PairIdle /\ LockIdle /\ DetectIdle
    /\ ProviderIdle

Next ==
    \/ TextCheck
    \/ ImageCheck
    \/ Sleep
    \/ Tick
    \/ DeleteClip
    \/ TogglePin
    \/ ClearOldClips
    \/ Relaunch

Spec == Init /\ [][Next]_vars

\* ------------------------------------------------- properties of the capture
TextStep == pc = "text" /\ pc' = "image"
ImageStep == pc = "image" /\ pc' = "sleep"

Hashes(rows) == {r.content_hash : r \in rows}
RowIds(rows) == {r.id : r \in rows}
Blank(text) == is_empty(trim(text))

\* the loop's insert_clip call of this step, if any: its hash and its result
Submitted ==
    \/ TextStep /\ tret' # "none"
    \/ ImageStep /\ iret' # "none"
SubmittedHash ==
    IF TextStep THEN compute_hash(tobs'.text) ELSE compute_hash_bytes(iobs'.img.bytes)
SubmittedRet == IF TextStep THEN tret' ELSE iret'

C1_UniqueHash ==
    \A r1, r2 \in store : r1.content_hash = r2.content_hash => r1 = r2

C1_RefreshStep ==
    (Submitted /\ SubmittedRet # "Err" /\ SubmittedHash \in Hashes(store))
    => /\ SubmittedRet = "Ok(false)"
       /\ RowIds(store') = RowIds(store)
       /\ Cardinality(store') = Cardinality(store)
       /\ \A r \in store' : r.content_hash = SubmittedHash => r.created_at = now

\* C1: in every reachable state no two stored items have the same content_hash,
\* whatever insert_clip, delete_clip, toggle_pin and clear_old_clips calls were
\* made; an insert_clip (that returns no error) whose content_hash is already
\* stored creates no new row, returns false and sets that row's created_at to
\* the new item's created_at.
C1_UniqueHashAndRefresh == []C1_UniqueHash /\ [][C1_RefreshStep]_vars

\* a refresh has just happened beside another row: the refreshed row carries the
\* time of the second submission, later than its first
C1_Witness ==
    /\ pc = "image" /\ tret = "Ok(false)"
    /\ Cardinality(store) = 2
    /\ now > 0
    /\ \E r \in store : r.content_hash = compute_hash(tobs.text) /\ r.created_at = now

SameTextAgain ==
    TextStep /\ tobs.ok /\ tobs' = tobs /\ ~Blank(tobs.text)

\* C2 as stated: when the clipboard shows the same text on two successive
\* observations (and the item of the first is stored), exactly one item with
\* that hash is stored afterwards and its created_at is the time of the second
\* observation.
C2_Original ==
    [][(SameTextAgain /\ compute_hash(tobs.text) \in Hashes(store))
       => /\ Cardinality({r \in store' : r.content_hash = compute_hash(tobs.text)}) = 1
          /\ \A r \in store' : r.content_hash = compute_hash(tobs.text)
                               => r.created_at = now]_vars

\* C2 as amended: after every insert_clip call of the loop that returns no
\* error exactly one stored item has the submitted hash and its created_at is
\* the timestamp of that (latest) submission; and when the clipboard shows the
\* same text on two successive observations of one running loop, the second
\* observation is not submitted: insert_clip is not called, nothing is emitted
\* and the store is left as it is.
C2_Amended ==
    [][/\ (Submitted /\ SubmittedRet # "Err")
          => /\ Cardinality({r \in store' : r.content_hash = SubmittedHash}) = 1
             /\ \A r \in store' : r.content_hash = SubmittedHash => r.created_at = now
       /\ SameTextAgain
          => tret' = "none" /\ store' = store /\ emitted' = emitted]_vars

\* the second of two successive observations of one text has been filtered; the
\* stored item still carries the earlier time of the first submission
C2_Witness ==
    /\ pc = "image" /\ tobs.ok /\ ~Blank(tobs.text) /\ tret = "none"
    /\ last_text_hash = compute_hash(tobs.text)
    /\ \E r \in store : r.content_hash = compute_hash(tobs.text) /\ r.created_at < now

NewRows == {r \in store' : r.id \notin RowIds(store)}

C3_Step ==
    /\ Len(emitted') = Len(emitted) + Cardinality(NewRows)
    /\ Cardinality(NewRows) <= 1
    /\ \A r \in NewRows : emitted' = Append(emitted, Notification(r))
    /\ NewRows = {} => emitted' = emitted
    /\ (Submitted /\ SubmittedRet = "Ok(false)") => emitted' = emitted
    /\ (Submitted /\ SubmittedRet # "Err" /\ SubmittedHash \notin Hashes(store))
       => /\ Len(emitted') = Len(emitted) + 1
          /\ emitted'[Len(emitted')].content_hash = SubmittedHash

\* C3: for any sequence of clipboard contents the loop observes, a
\* "clipboard-changed" notification is emitted exactly in the steps in which
\* insert_clip created a new row, carrying that row: once when a submitted hash
\* is not in the store (and the insert succeeds), never on a dedup-refresh; and
\* the store never holds more rows than distinct hashes were observed.
C3_NotifyIffInserted ==
    [](Cardinality(store) <= Cardinality(seen)) /\ [][C3_Step]_vars

\* A, B, A: two notifications, then a refresh of A without a third
C3_Witness ==
    /\ pc = "image" /\ tret = "Ok(false)"
    /\ Len(emitted) = 2
    /\ emitted[1].content_hash = compute_hash(tobs.text)
    /\ Cardinality(store) = 2

\* C4 as stated: when insert_clip returns an error the loop emits nothing and
\* leaves its last-seen hash as it was, so that the same content, still on the
\* clipboard at the next poll, is submitted again (text check and image check).
C4_RetryAfterFailure ==
    [][/\ (TextStep /\ tret' = "Err")
          => emitted' = emitted /\ last_text_hash' = last_text_hash
       /\ (ImageStep /\ iret' = "Err")
          => emitted' = emitted /\ last_image_hash' = last_image_hash
       /\ (TextStep /\ tret = "Err" /\ tobs' = tobs) => tret' # "none"
       /\ (ImageStep /\ iret = "Err" /\ iobs' = iobs) => iret' # "none"]_vars

\* ------------------------------------------- properties of stream_generate
Deltas(evs) == SelectSeq(evs, LAMBDA e : ~e.done)
Dones(evs) == SelectSeq(evs, LAMBDA e : e.done)

RECURSIVE ConcatContent(_)
ConcatContent(evs) ==
    IF evs = <<>> THEN <<>> ELSE Head(evs).content \o ConcatContent(Tail(evs))

Delivered == SubSeq(resp, 1, pos)

\* the call on the same bytes arriving as one chunk, followed by the end of the
\* stream
Unsplit(k, bytes) ==
    LET r == process_lines(k, from_utf8_lossy(bytes), <<>>, <<>>)
    IN  IF r.returned
        THEN [events |-> r.events, text |-> r.full]
        ELSE [events |-> Append(r.events, Done), text |-> r.full]

ReturnedOk == spc = "returned" /\ result.tag = "Ok"

\* C5: for every provider kind and every response stream delivered without a
\* transport error, the sink has seen only Delta events until the call returns,
\* then exactly one Done, which is the last event; no event follows a Done, also
\* when more lines follow the terminal marker.
C5_DeltasThenOneDone ==
    /\ \A i \in 1..Len(events) : events[i].done => i = Len(events)
    /\ ReturnedOk => Len(Dones(events)) = 1 /\ events[Len(events)].done
    /\ spc # "returned" => Dones(events) = <<>>

\* the call returned at a terminal marker, after a Delta, with a further
\* complete line left in the buffer
C5_Witness ==
    /\ ReturnedOk /\ how = "marker"
    /\ Len(events) >= 2
    /\ contains(buffer, "\n")
    /\ \E i \in 1..Len(buffer) : buffer[i] \in {"{O:", "{C:", "{R:"}

\* C6 as stated: for stream_openai, however the response bytes are split into
\* chunks (also inside a multi-byte character), the returned text and the
\* sequence of Delta fragments are those of the same bytes arriving as one chunk.
C6_SplitInvariant ==
    (ReturnedOk /\ kind \in OpenAiKinds)
    => /\ result.text = Unsplit(kind, Delivered).text
       /\ Deltas(events) = Deltas(Unsplit(kind, Delivered).events)

\* C7: whenever the call returns Ok(text), text is the concatenation, in order,
\* of the contents of the Delta events it emitted, and its Done event has been
\* emitted.
C7_TextIsConcatOfDeltas ==
    ReturnedOk
    => /\ result.text = ConcatContent(Deltas(events))
       /\ events # <<>> /\ events[Len(events)].done

\* the call returned two fragments' text at a terminal marker
C7_Witness ==
    /\ ReturnedOk /\ how = "marker"
    /\ Len(Deltas(events)) = 2
    /\ Len(result.text) >= 2

\* C8: when the transport closes before a terminal marker was seen, the call
\* does not fail: it emits exactly one Done, as the last event, and returns Ok
\* with the text accumulated from the fragments seen so far.
C8_EndOfStreamIsDone ==
    how = "eof"
    => /\ result.tag = "Ok"
       /\ Len(Dones(events)) = 1 /\ events[Len(events)].done
       /\ result.text = full_content
       /\ result.text = ConcatContent(Deltas(events))

\* the transport closed inside a line, after a fragment, with bytes undelivered
C8_Witness ==
    /\ how = "eof" /\ result.tag = "Ok"
    /\ pos < Len(resp)
    /\ buffer # <<>>
    /\ result.text # <<>>

NonSuccess == status # 0 /\ status \notin 200..299

\* C9 as stated: when the status is not 2xx the call returns an error carrying
\* the status code and the response body, emits no event and sends no second
\* request.
C9_Original ==
    (spc = "returned" /\ NonSuccess)
    => /\ result = Err("API error", status, ErrorBody)
       /\ events = <<>>
       /\ requests = 1

\* C9 as amended: when the status is not 2xx the call returns an error carrying
\* the status code and the response body as far as it could be read (the empty
\* string when reading the body fails), emits no Delta and no Done and sends no
\* second request; no call sends more than one request.
C9_Amended ==
    /\ requests <= 1
    /\ (spc = "returned" /\ NonSuccess)
       => /\ result \in {Err("API error", status, ErrorBody),
                         Err("API error", status, EmptyString)}
          /\ events = <<>>
          /\ requests = 1
    /\ (spc = "stream" \/ events # <<>>) => ~NonSuccess

\* the call has returned the API error with status and body
C9_Witness ==
    /\ spc = "returned" /\ how = "status"
    /\ result = Err("API error", 500, ErrorBody)
    /\ requests = 1

TransportFailure == how \in {"connect", "stream_error"}

\* C10 as stated: a call that ends in a transport failure returns an error and
\* not the accumulated text, reads no further chunk, and the sink has seen no
\* Delta of that call.
C10_Original ==
    TransportFailure
    => /\ result.tag = "Err" /\ result.text = <<>>
       /\ Deltas(events) = <<>>

C10_FailureState ==
    TransportFailure
    => /\ spc = "returned"
       /\ result.tag = "Err" /\ result.text = <<>>
       /\ Dones(events) = <<>>
       /\ how = "connect" => events = <<>>
       /\ full_content = ConcatContent(events)

\* C10 as amended: a call that ends in a transport failure returns an error and
\* not the accumulated text, on the first failing read and with no further
\* chunk read or event emitted; it emits no Done; the Delta events of the lines
\* completed before the failing read have been delivered to the sink and stay
\* delivered (none after a connect error).
C10_Amended ==
    /\ []C10_FailureState
    /\ [][TransportFailure => (pos' = pos /\ events' = events /\ result' = result)]_vars

\* a read failed in the middle of the body, after a fragment had been emitted
C10_Witness ==
    /\ how = "stream_error" /\ result.tag = "Err"
    /\ 0 < pos /\ pos < Len(resp)
    /\ Len(events) >= 1
    /\ full_content # <<>>

C11_UnknownKindState ==
    (kind \notin {"openai", "kimi", "minimax", "claude", "ollama"})
    => /\ spc \in {"call", "returned"}
       /\ requests = 0 /\ status = 0 /\ pos = 0
       /\ events = <<>>
       /\ spc = "returned" => result = Err("Unknown provider kind", 0, <<>>)

\* C11: when stream_generate is called with a kind other than openai, kimi,
\* minimax, claude or ollama, its first step returns an error; it sends no
\* request, reads no byte of a response and emits no event.
C11_UnknownKindFailsAtOnce ==
    /\ []C11_UnknownKindState
    /\ [][(kind \notin {"openai", "kimi", "minimax", "claude", "ollama"} /\ spc = "call")
          => (spc' = "returned" /\ result'.tag = "Err")]_vars

\* the call with kind "gemini" has returned its error
C11_Witness ==
    /\ kind = "gemini" /\ spc = "returned" /\ how = "unknown_kind"
    /\ result.tag = "Err" /\ requests = 0 /\ events = <<>>
    /\ resp # <<>>

\* ------------------------------------------------ properties of start and stop
LiveLoops == {t \in Threads : Live(t)}

\* C12 as stated: after any sequence and interleaving of start and stop calls
\* at most one polling loop is running: a second start does not produce a second
\* loop, and a loop that was running when stop was called exits even when start
\* is called again before it has observed the flag.
C12_AtMostOneLoop == Cardinality(LiveLoops) <= 1

\* the moves of one loop thread: from the loop condition into the text check
\* when the flag is set and out of the loop when it is not, and from the text
\* check through the image check and one sleep back to the loop condition
C13_LoopMoves(t) ==
    loops'[t].pc # loops[t].pc
    => \/ loops[t].pc = "none" /\ loops'[t].pc = "head" /\ running'
       \/ loops[t].pc = "head" /\ running /\ loops'[t].pc = "text"
       \/ loops[t].pc = "head" /\ ~running /\ loops'[t].pc = "exited"
       \/ loops[t].pc = "text" /\ loops'[t].pc = "image"
       \/ loops[t].pc = "image" /\ loops'[t].pc = "sleep"
       \/ loops[t].pc = "sleep" /\ loops'[t].pc = "head"

\* a stop call: the flag goes from set to clear
C13_StopStep == running /\ ~running'

\* C13: after stop is called and start is not called again, every loop
\* terminates: stop itself interrupts nothing (no thread moves and the store is
\* untouched by it), each loop finishes the checks of the iteration it is in,
\* sleeps once, finds the flag clear at the loop condition and exits without
\* beginning another check.
C13_StopTerminatesLoop ==
    /\ [][\A t \in Threads : C13_LoopMoves(t)]_vars
    /\ [][C13_StopStep => (loops' = loops /\ store' = store /\ emitted' = emitted)]_vars
    /\ (~running) ~> (running \/ LiveLoops = {})

\* a loop that was started, inserted an item and was then stopped has exited
C13_Witness ==
    /\ ~running
    /\ \E t \in Threads : loops[t].pc = "exited" /\ loops[t].last_text_hash # EmptyString
    /\ LiveLoops = {}
    /\ store # {}

\* ------------------------------------- properties of the loop body (continued)
\* C14: a failed clipboard read is swallowed: the check whose read failed calls
\* no insert_clip, emits nothing and leaves the store and both last-seen hashes
\* as they are, and the loop goes on: to the image check after a failed text
\* read, to the sleep and the next cycle after a failed image read.
C14_ReadFailureSwallowed ==
    /\ [](pc \in {"text", "image", "sleep"})
    /\ [][/\ (TextStep /\ ~tobs'.ok)
             => /\ tret' = "none"
                /\ store' = store /\ emitted' = emitted
                /\ last_text_hash' = last_text_hash
                /\ last_image_hash' = last_image_hash
          /\ (ImageStep /\ ~iobs'.ok)
             => /\ iret' = "none"
                /\ store' = store /\ emitted' = emitted
                /\ last_text_hash' = last_text_hash
                /\ last_image_hash' = last_image_hash
          /\ (pc = "sleep" /\ pc' # pc) => pc' = "text"]_vars

\* both reads of a cycle failed, after a cycle that had stored a text and an
\* image: hashes and rows are still there and the loop is at its sleep
C14_Witness ==
    /\ pc = "sleep" /\ ~tobs.ok /\ ~iobs.ok
    /\ last_text_hash # EmptyString /\ last_image_hash # EmptyString
    /\ Cardinality(store) = 2

\* C15: the two checks of a cycle are independent.  The text check decides by
\* the last-seen text hash alone and writes only that one; the image check
\* decides by the last-seen image hash alone and writes only that one; and after
\* a text check of any outcome the image check is the next step of the loop,
\* after an image check of any outcome the sleep and the next text check.
C15_ChecksIndependent ==
    [][/\ TextStep
          => /\ last_image_hash' = last_image_hash
             /\ iobs' = iobs /\ iret' = iret
             /\ (tret' # "none")
                  <=> (tobs'.ok /\ ~Blank(tobs'.text)
                       /\ compute_hash(tobs'.text) # last_text_hash)
             /\ last_text_hash' =
                  IF tret' # "none" THEN compute_hash(tobs'.text) ELSE last_text_hash
       /\ ImageStep
          => /\ last_text_hash' = last_text_hash
             /\ tobs' = tobs /\ tret' = tret
             /\ (last_image_hash' # last_image_hash)
                  <=> (iobs'.ok /\ compute_hash_bytes(iobs'.img.bytes) # last_image_hash)
             /\ (iret' # "none") => (last_image_hash' # last_image_hash)
             /\ last_image_hash' \in {last_image_hash, compute_hash_bytes(iobs'.img.bytes)}
       /\ (pc = "text" /\ pc' # pc) => pc' = "image"
       /\ (pc = "image" /\ pc' # pc) => pc' \in {"sleep", "text"}]_vars

\* in one cycle the text's insert failed and the image was inserted
C15_Witness ==
    /\ pc = "sleep"
    /\ tret = "Err" /\ iret = "Ok(true)"
    /\ last_text_hash # EmptyString /\ last_image_hash # EmptyString

\* ------------------------------------------------ properties of the clip store
\* the step is a call of op: the record of the last call changes, or the table
CallStep(op) == call'.op = op /\ (call' # call \/ store' # store)

ClearStep == CallStep("clear_old_clips")
GetStep == CallStep("get_clips")
ToggleStep == CallStep("toggle_pin")
RefreshStep ==
    call'.op = "insert_clip" /\ now' # now /\ call'.tag = "Ok" /\ ~call'.flag

\* what a sweep with the horizon at time h has to leave in the table
KeptAt(rows, h) == {r \in rows : r.is_pinned \/ r.created_at >= h}

\* C16: the sweep deletes exactly the items that are unpinned and whose
\* created_at is strictly older than the horizon (now minus keep_days), leaves
\* every pinned item and every item at or newer than the horizon as it is, and
\* returns the number of items it deleted.
C16_SweepDeletesOldUnpinned ==
    /\ [](\A k \in KeepDays :
            /\ clear_old_clips(store, k, FALSE).rows = KeptAt(store, now - k)
            /\ clear_old_clips(store, k, FALSE).ret
                 = <<"Ok", Cardinality(store \ KeptAt(store, now - k))>>)
    /\ [][(ClearStep /\ call'.tag = "Ok")
          => /\ store' = KeptAt(store, now - call'.keep_days)
             /\ call'.count = Cardinality(store \ store')]_vars

\* a sweep has deleted one item and left a pinned item older than the horizon
\* and an unpinned item not older than it
C16_Witness ==
    /\ call.op = "clear_old_clips"
    /\ call.tag = "Ok" /\ call.count = 1
    /\ \E r \in store : r.is_pinned /\ r.created_at < now - call.keep_days
    /\ \E r \in store : ~r.is_pinned /\ r.created_at >= now - call.keep_days

\* q lists its items pinned first and, among equally pinned ones, newest first
PinnedFirstNewestFirst(q) ==
    \A i, j \in 1..Len(q) :
        i < j => /\ q[i].is_pinned \/ ~q[j].is_pinned
                 /\ q[i].is_pinned = q[j].is_pinned => q[i].created_at >= q[j].created_at

\* the sequences that list every item of rows once
Listings(rows) ==
    {q \in [1..Cardinality(rows) -> rows] :
        \A i, j \in 1..Cardinality(rows) : i # j => q[i] # q[j]}

Min(a, b) == IF a < b THEN a ELSE b

\* C17: get_clips returns, of the stored items that match the filter listed
\* pinned first and then by created_at descending, the slice of at most limit
\* items that starts at offset; and right after a duplicate insert has refreshed
\* an item, that item comes before every other unpinned item, and before every
\* other item when it is pinned.
C17_PinnedFirstThenNewest ==
    /\ [][(GetStep /\ call'.tag = "Ok")
          => LET limit == call'.limit
                 offset == call'.offset
                 matching == {r \in store : where(r, call'.search, call'.clip_type)}
             IN  \E q \in Listings(matching) :
                    /\ PinnedFirstNewestFirst(q)
                    /\ call'.items = SubSeq(q, offset + 1, Min(offset + limit, Len(q)))
                    /\ Len(call'.items) <= limit]_vars
    /\ [][RefreshStep
          => \A v \in get_clips(store', None, None, 100, 0) :
               \A i, j \in 1..Len(v) :
                  (/\ v[i].content_hash = call'.hash
                   /\ i # j
                   /\ v[i].is_pinned \/ ~v[j].is_pinned)
                  => i < j]_vars

\* get_clips has returned the second item alone of the stored ones, of which
\* one is pinned and older than an unpinned one and one was refreshed after a
\* later item had been inserted
C17_Witness ==
    /\ call.op = "get_clips"
    /\ call.tag = "Ok"
    /\ call.limit = 1 /\ call.offset = 1 /\ Len(call.items) = 1
    /\ Cardinality(store) >= 2
    /\ \E r1, r2 \in store : r1.is_pinned /\ ~r2.is_pinned /\ r1.created_at < r2.created_at
    /\ \E r1, r2 \in store : r1.id < r2.id /\ r1.created_at > r2.created_at
    /\ ~call.items[1].is_pinned

\* C18: toggle_pin on the id of a stored item inverts the pinned flag of that
\* item, changes no other item and no other field, and returns the new flag; a
\* second toggle_pin on the same id gives the table back as it was.
C18_ToggleInverts ==
    /\ [](\A id \in RowIds(store) :
            toggle_pin(toggle_pin(store, id, FALSE).rows, id, FALSE).rows = store)
    /\ [][(ToggleStep /\ call'.id \in RowIds(store) /\ call'.tag = "Ok")
          => /\ store' = {IF r.id = call'.id
                          THEN [r EXCEPT !.is_pinned = ~r.is_pinned]
                          ELSE r : r \in store}
             /\ \A r \in store' :
                   r.id = call'.id => call'.flag = r.is_pinned
             /\ (call.op = "toggle_pin" /\ call.id = call'.id /\ call.tag = "Ok")
                => call'.flag # call.flag]_vars

\* a second toggle_pin has unpinned an item again, beside a pinned item
C18_Witness ==
    /\ call.op = "toggle_pin" /\ call.tag = "Ok" /\ ~call.flag
    /\ \E r \in store : r.id = call.id /\ ~r.is_pinned
    /\ \E r \in store : r.id # call.id /\ r.is_pinned

\* ------------------------------------------ properties of concurrent calls
\* what call c has when it has read, alone, the bytes delivered to it so far
Alone(c) == process_lines(c.kind, from_utf8_lossy(SubSeq(c.resp, 1, c.pos)), <<>>, <<>>)

\* C19: two generate calls in flight share no buffer: under every interleaving
\* of their chunk arrivals the line buffer and the accumulated text of each
\* call are those of the bytes of its own response delivered so far, a step of
\* one call changes nothing of the other, and each call returns the text it
\* returns on the same response when it runs alone.
C19_CallsShareNoBuffer ==
    /\ [](\A i \in Calls :
            /\ calls[i].spc = "stream"
               => /\ calls[i].buffer = Alone(calls[i]).buffer
                  /\ calls[i].full_content = Alone(calls[i]).full
            /\ calls[i].result.tag = "Ok"
               => calls[i].result.text
                    = Unsplit(calls[i].kind, SubSeq(calls[i].resp, 1, calls[i].pos)).text)
    /\ [][\A i, j \in Calls :
            (i # j /\ calls'[i] # calls[i]) => calls'[j] = calls[j]]_vars

\* both calls are inside a line of their streams, with different partial
\* lines in their buffers, and one of them has text accumulated
C19_Witness ==
    /\ \A i \in Calls : calls[i].spc = "stream" /\ calls[i].buffer # <<>>
    /\ calls[1].buffer # calls[2].buffer
    /\ calls[1].kind # calls[2].kind
    /\ calls[1].full_content # <<>>
    /\ calls[2].full_content = <<>>

\* thread t is between two statements of a method, holding the mutex
Inside(t) == ops[t].pc \in {"checked", "updated"}

InsertReturns(t) == ops[t].pc = "checked" /\ ops'[t].pc = "idle"

ToggleReturns(t) == ops[t].pc = "updated" /\ ops'[t].pc = "idle"

RowsWithHash(rows, text) == {r \in rows : r.content_hash = compute_hash(text)}

\* C20: the store serializes concurrent access.  A thread is between the
\* statements of a method only while it holds the one mutex, so at most one
\* thread is; while it is, no other thread reads or writes the table (another
\* thread can only arrive at the lock); the existence check and the write of an
\* insert_clip together change the table and return as the whole method does
\* on the table the write finds; when an insert returns true while another
\* insert_clip of the same content_hash waits for the lock, one row has the
\* hash and the waiting call finds it (it returns false); no INSERT ever
\* meets the UNIQUE constraint; and toggle_pin returns the flag its own UPDATE
\* wrote.
C20_StoreSerialized ==
    /\ [](/\ \A t \in Callers : Inside(t) <=> lock = t
          /\ \A t \in Callers : ops[t].ret # "Err(constraint)"
          /\ \A r1, r2 \in store : r1.content_hash = r2.content_hash => r1 = r2)
    /\ [][\A t \in Callers :
            /\ Inside(t)
               => /\ ops'[t] = ops[t] => store' = store
                  /\ \A u \in Callers \ {t} :
                       ops'[u] # ops[u] => ops[u].pc = "idle" /\ ops'[u].pc = "wait"
            /\ (InsertReturns(t) /\ ops'[t].ret # "Err")
               => LET whole == insert_clip(store, ItemOf(ops[t]), FALSE)
                  IN  store' = whole.rows /\ ops'[t].ret = whole.ret
            /\ (InsertReturns(t) /\ ops'[t].ret = "Err") => store' = store
            /\ (InsertReturns(t) /\ ops'[t].ret = "Ok(true)")
               => /\ Cardinality(RowsWithHash(store', ops[t].text)) = 1
                  /\ \A u \in Callers \ {t} :
                       (ops[u].op = "insert_clip" /\ ops[u].pc = "wait"
                            /\ ops[u].text = ops[t].text)
                       => /\ select_exists(store', compute_hash(ops[u].text))
                          /\ insert_clip(store', ItemOf(ops[u]), FALSE).ret = "Ok(false)"
                          /\ insert_clip(store', ItemOf(ops[u]), FALSE).rows
                               = update_created_at(store', ops[u].created_at,
                                                   compute_hash(ops[u].text))
            /\ (ToggleReturns(t) /\ ops'[t].ret = "Ok(true)")
               => \E r \in store' : r.id = ops[t].id /\ r.is_pinned
            /\ (ToggleReturns(t) /\ ops'[t].ret = "Ok(false)")
               => \E r \in store' : r.id = ops[t].id /\ ~r.is_pinned]_vars

\* one insert_clip has found no row with its hash and holds the mutex before
\* its INSERT, while an insert_clip of the same content waits for the lock
C20_Witness ==
    /\ ops[1].op = "insert_clip" /\ ops[1].pc = "checked" /\ ~ops[1].exists
    /\ lock = 1
    /\ ops[2].op = "insert_clip" /\ ops[2].pc = "wait"
    /\ ops[2].text = ops[1].text

\* the classification of a text as the rules state it
RuleOf(text) ==
    LET t == trim(text)
        scheme == t # <<>> /\ t[1] \in {"http://", "https://", "ftp://"}
        newline == \E i \in 1..Len(t) : t[i] = "\n"
        n == Cardinality({ind \in code_indicators : \E i \in 1..Len(t) : t[i] = ind})
        lines == IF t = <<>> THEN 0
                 ELSE Cardinality({i \in 1..Len(t) : t[i] = "\n"}) + 1
        braces == (\E i \in 1..Len(t) : t[i] = "{") /\ (\E i \in 1..Len(t) : t[i] = "}")
    IN  [url |-> scheme /\ ~newline,
         code |-> (n >= 2 /\ lines >= 3) \/ (braces /\ n >= 1 /\ lines >= 5),
         scheme |-> scheme, newline |-> newline]

\* C21: detect_type returns url exactly for a trimmed text that starts with
\* http://, https:// or ftp:// and has no newline; otherwise code exactly when
\* (indicator_count >= 2 and line_count >= 3) or (both braces and
\* indicator_count >= 1 and line_count >= 5); otherwise text.  A text with a
\* scheme prefix and a newline is classified by the code rule, and image is
\* never returned.
C21_DetectTypeRules ==
    dtype # "none"
    => /\ dtype \in {"url", "code", "text"}
       /\ dtype = "url" <=> RuleOf(dtext).url
       /\ dtype = "code" <=> (~RuleOf(dtext).url /\ RuleOf(dtext).code)
       /\ (RuleOf(dtext).scheme /\ RuleOf(dtext).newline)
          => dtype = (IF RuleOf(dtext).code THEN "code" ELSE "text")

\* detect_type has returned code for a text that starts with a scheme and
\* has five lines, braces and one indicator
C21_Witness ==
    /\ dtype = "code"
    /\ RuleOf(dtext).scheme /\ RuleOf(dtext).newline
    /\ Cardinality({ind \in code_indicators : contains(trim(dtext), ind)}) = 1
    /\ line_count(trim(dtext)) = 5

\* the trimmed complete lines of a buffer, in order
RECURSIVE CompleteLines(_)
CompleteLines(buf) ==
    IF \A i \in 1..Len(buf) : buf[i] # "\n" THEN <<>>
    ELSE LET e == CHOOSE i \in 1..Len(buf) :
                      buf[i] = "\n" /\ \A j \in 1..(i - 1) : buf[j] # "\n"
         IN  <<trim(SubSeq(buf, 1, e - 1))>> \o CompleteLines(SubSeq(buf, e + 1, Len(buf)))

\* the payload of a line prefixed "data: "
Payload(line) ==
    IF Len(line) >= 2 /\ line[1] = "data:" /\ line[2] = " "
    THEN Some(SubSeq(line, 3, Len(line))) ELSE None

\* what a line of the Delta-JSON-over-SSE format stands for: a fragment
\* (delta), the end of the request (done), or nothing
StatedOpenAi(line) ==
    LET p == Payload(line)
    IN  IF p = None THEN [delta |-> None, done |-> FALSE]
        ELSE IF p[1] = <<"[DONE]">> THEN [delta |-> None, done |-> TRUE]
        ELSE IF from_str(p[1]).ok /\ from_str(p[1]).content # None
        THEN [delta |-> from_str(p[1]).content, done |-> FALSE]
        ELSE [delta |-> None, done |-> FALSE]

\* a chunk has arrived and has been processed
ChunkStep == spc = "stream" /\ pos' > pos

\* the text the inner loop runs over in this step
ChunkInput == buffer \o from_utf8_lossy(SubSeq(resp, pos + 1, pos'))

RECURSIVE Flatten(_)
Flatten(strs) == IF strs = <<>> THEN <<>> ELSE Head(strs) \o Flatten(Tail(strs))

\* the step emits a Delta for each of the fragments, in order, then Done when
\* done, adds the fragments to the accumulated text, and returns it when done
StepYields(deltas, done) ==
    /\ events' = events \o [i \in 1..Len(deltas) |-> Delta(deltas[i])]
                        \o (IF done THEN <<Done>> ELSE <<>>)
    /\ full_content' = full_content \o Flatten(deltas)
    /\ IF done THEN spc' = "returned" /\ result' = Ok(full_content')
               ELSE spc' = "stream" /\ result' = result

RECURSIVE FollowOpenAi(_)
FollowOpenAi(lines) ==
    IF lines = <<>> THEN [deltas |-> <<>>, done |-> FALSE]
    ELSE LET h == StatedOpenAi(Head(lines))
             rest == FollowOpenAi(Tail(lines))
         IN  IF h.done THEN [deltas |-> h.delta, done |-> TRUE]
             ELSE [deltas |-> h.delta \o rest.deltas, done |-> rest.done]

\* C22: in stream_openai only lines prefixed "data: " are interpreted: the
\* payload [DONE] ends the request with Done; any other payload that parses as
\* JSON with a string at choices[0].delta.content yields exactly one Delta with
\* that string; a payload without the field, and a line without the prefix,
\* yield no event and leave the accumulated text as it is.  So each chunk
\* adds to the events and to the text what its complete lines stand for, up to
\* the first [DONE].
C22_OpenAiLines ==
    [][(ChunkStep /\ kind \in OpenAiKinds)
       => \E f \in {FollowOpenAi(CompleteLines(ChunkInput))} :
            StepYields(f.deltas, f.done)]_vars

\* stream_openai has passed over a JSON line without the prefix, emitted one
\* Delta for a prefixed one, and returned at [DONE], the last line
C22_Witness ==
    /\ kind \in OpenAiKinds /\ how = "marker"
    /\ Len(events) = 2 /\ events[1] = Delta(<<"a">>)
    /\ \E i \in 1..Len(resp) :
         /\ resp[i] = "{O:"
         /\ i = 1 \/ resp[i - 1] = "\n"
    /\ Len(resp) >= 2 /\ resp[Len(resp) - 1] = "[DONE]"

\* what a line of the block-delta format stands for
StatedClaude(line) ==
    LET p == Payload(line)
        js == from_str(p[1])
    IN  IF p = None \/ ~js.ok THEN [delta |-> None, done |-> FALSE]
        ELSE IF js.type = "content_block_delta" /\ js.text # None
        THEN [delta |-> js.text, done |-> FALSE]
        ELSE IF js.type = "message_stop" THEN [delta |-> None, done |-> TRUE]
        ELSE [delta |-> None, done |-> FALSE]

RECURSIVE FollowClaude(_)
FollowClaude(lines) ==
    IF lines = <<>> THEN [deltas |-> <<>>, done |-> FALSE]
    ELSE LET h == StatedClaude(Head(lines))
             rest == FollowClaude(Tail(lines))
         IN  IF h.done THEN [deltas |-> h.delta, done |-> TRUE]
             ELSE [deltas |-> h.delta \o rest.deltas, done |-> rest.done]

\* C23: in stream_claude a "data: " line whose JSON has type
\* content_block_delta and a string delta.text yields exactly one Delta with
\* that text; type message_stop ends the request with Done; every other type,
\* and a content_block_delta without a text string, yields no event, leaves the
\* accumulated text as it is, and the stream continues.
C23_ClaudeLines ==
    [][(ChunkStep /\ kind = "claude")
       => \E f \in {FollowClaude(CompleteLines(ChunkInput))} :
            StepYields(f.deltas, f.done)]_vars

\* stream_claude has passed over a ping and a content_block_delta without
\* text, and then emitted a Delta: the stream went on after them
C23_Witness ==
    /\ kind = "claude" /\ spc = "stream"
    /\ events = <<Delta(<<"a">>)>>
    /\ \E i \in 1..Len(resp) : resp[i] = "{role}" /\ i < pos
    /\ \E i \in 1..Len(resp) : resp[i] = "{cbd}" /\ i < pos

\* what a line of the newline-JSON format stands for
StatedOllama(line) ==
    LET js == from_str(line)
    IN  IF line = <<>> \/ ~js.ok THEN [delta |-> None, done |-> FALSE]
        ELSE [delta |-> js.response, done |-> js.done]

RECURSIVE FollowOllama(_)
FollowOllama(lines) ==
    IF lines = <<>> THEN [deltas |-> <<>>, done |-> FALSE]
    ELSE LET h == StatedOllama(Head(lines))
             rest == FollowOllama(Tail(lines))
         IN  IF h.done THEN [deltas |-> h.delta, done |-> TRUE]
             ELSE [deltas |-> h.delta \o rest.deltas, done |-> rest.done]

\* C24: in stream_ollama every non-empty line that parses as JSON yields one
\* Delta when it has a string field response, and ends the request with Done
\* when its field done is the boolean true; when one line carries both, the
\* Delta is emitted before the Done and its text is part of the returned text;
\* a line with done absent or false never ends the request.
C24_OllamaLines ==
    /\ [][(ChunkStep /\ kind = "ollama")
          => \E f \in {FollowOllama(CompleteLines(ChunkInput))} :
               StepYields(f.deltas, f.done)]_vars
    /\ []((kind = "ollama" /\ how = "marker")
          => /\ events[Len(events)] = Done
             /\ \A i \in 1..(Len(events) - 1) : ~events[i].done
             /\ result.text = ConcatContent(Deltas(events)))

\* stream_ollama has returned at a line that carries a response and done:
\* the Delta of that line, then Done
C24_Witness ==
    /\ kind = "ollama" /\ how = "marker"
    /\ Len(resp) >= 2 /\ resp[Len(resp) - 1] = ",done}"
    /\ pos = Len(resp)
    /\ Len(events) >= 2
    /\ events[Len(events) - 1] = Delta(<<"a">>)
    /\ result.text # <<>>

\* the line is not blank, is not the [DONE] marker, and the text an adapter
\* would hand to serde_json (the payload of a "data: " line, the line itself
\* otherwise) is not JSON
Malformed(k, line) ==
    \E data \in {IF k # "ollama" /\ Payload(line) # None THEN Payload(line)[1] ELSE line} :
        /\ data # <<>>
        /\ ~(k \in OpenAiKinds /\ data = <<"[DONE]">>)
        /\ ~from_str(data).ok

\* the buffer without its malformed complete lines
RECURSIVE WithoutMalformed(_, _)
WithoutMalformed(k, buf) ==
    LET Cut[e \in 1..Len(buf)] ==
            (IF Malformed(k, trim(SubSeq(buf, 1, e - 1))) THEN <<>> ELSE SubSeq(buf, 1, e))
            \o WithoutMalformed(k, SubSeq(buf, e + 1, Len(buf)))
    IN  IF \A i \in 1..Len(buf) : buf[i] # "\n" THEN buf
        ELSE Cut[CHOOSE i \in 1..Len(buf) :
                     buf[i] = "\n" /\ \A j \in 1..(i - 1) : buf[j] # "\n"]

\* C25: for every provider kind a malformed or non-JSON line of the response
\* is skipped without effect: a chunk emits the events, accumulates the text
\* and ends or goes on as it does on the same input without its malformed
\* lines, and processing lines never makes the call return an error.
C25_MalformedSkipped ==
    [][(ChunkStep /\ kind \in KnownKinds)
       => \E clean \in {WithoutMalformed(kind, ChunkInput)} :
          \E r \in {process_lines(kind, clean, full_content, <<>>)} :
            /\ events' = events \o r.events
            /\ full_content' = r.full
            /\ (spc' = "returned") <=> r.returned
            /\ result'.tag # "Err"
            /\ r.returned => result' = Ok(r.full)]_vars

\* stream_ollama has returned the fragment that followed a non-JSON first line
C25_Witness ==
    /\ kind = "ollama" /\ how = "marker"
    /\ resp # <<>> /\ resp[1] = "junk"
    /\ events = <<Delta(<<"a">>), Done>>
    /\ result = Ok(<<"a">>)

\* what follows the last line terminator of a sequence (all of it when it
\* has none)
AfterLastNewline(s) ==
    LET ends == {i \in 1..Len(s) : s[i] = "\n"}
    IN  IF ends = {} THEN s
        ELSE SubSeq(s, (CHOOSE i \in ends : \A j \in ends : j <= i) + 1, Len(s))

\* what the complete lines of a text make the adapter of kind k emit
LineEvents(k, text) == process_lines(k, text, <<>>, <<>>).events

\* C26 as stated: between network reads (the call is in its read loop, no
\* terminal marker reached) the buffer contains no line terminator and holds
\* exactly the bytes received after the last line terminator, and every
\* complete line received so far has been processed exactly once, in order.
C26_BufferIsUnterminatedTail ==
    (spc = "stream" /\ kind \in KnownKinds)
    => /\ \A i \in 1..Len(buffer) : buffer[i] # "\n"
       /\ buffer = from_utf8_lossy(AfterLastNewline(Delivered))
       /\ events = LineEvents(kind, from_utf8_lossy(Delivered))

\* C27: a dedup-refresh (insert_clip with a content_hash that is stored)
\* changes only the created_at of the row with that hash: its id, content,
\* clip_type, source_app, image_path and pinned flag stay, no other field of
\* the submitted item is stored, and every other row is unchanged; a pinned
\* item stays pinned.
C27_RefreshChangesOnlyCreatedAt ==
    [][RefreshStep
       => \E r \in store :
            /\ r.content_hash = call'.hash
            /\ store' = (store \ {r}) \cup {[r EXCEPT !.created_at = now]}
            /\ \A s \in store' : s.content_hash = call'.hash => s.is_pinned = r.is_pinned
            /\ RowIds(store') = RowIds(store)]_vars

\* a pinned item captured from no application has been refreshed, beside
\* another row: it is still pinned and has the time of the second capture
C27_Witness ==
    /\ call.op = "insert_clip" /\ call.tag = "Ok" /\ ~call.flag
    /\ \E r \in store :
         /\ r.content_hash = call.hash /\ r.is_pinned /\ r.source_app = None
         /\ r.created_at = now - 1
    /\ Cardinality(store) >= 2

\* stream.next() has yielded None
CloseStep == spc = "stream" /\ spc' = "returned" /\ how' = "eof"

\* C28: when the transport closes, what remains in the line buffer (a last
\* line without its line terminator) is discarded without being parsed: for
\* every provider kind a last fragment or terminal marker that is not
\* newline-terminated adds no Delta and no text, and the request ends with
\* the synthesized Done and the text accumulated from the complete lines.
C28_UnterminatedLineDiscarded ==
    [][CloseStep
       => /\ events' = Append(events, Done)
          /\ result' = Ok(full_content)
          /\ Deltas(events') = Deltas(events)
          /\ buffer' = buffer /\ full_content' = full_content]_vars

\* the transport closed when the buffer held a whole fragment line without
\* its line terminator: the call returned the empty text and only Done
C28_Witness ==
    /\ how = "eof" /\ kind \in KnownKinds
    /\ handle_line(kind, trim(buffer)).frag # None
    /\ events = <<Done>>
    /\ result = Ok(<<>>)

\* the events call i has emitted so far
Emitted(i) == SubSeq(calls[i].events, 1, Len(calls[i].events) - Len(calls[i].pending))

\* s is an interleaving of a and b: every element of s comes from one of them,
\* and those of each keep their order
RECURSIVE Interleaving(_, _, _)
Interleaving(s, a, b) ==
    IF s = <<>> THEN a = <<>> /\ b = <<>>
    ELSE \/ a # <<>> /\ Head(a) = Head(s) /\ Interleaving(Tail(s), Tail(a), b)
         \/ b # <<>> /\ Head(b) = Head(s) /\ Interleaving(Tail(s), a, Tail(b))

Finished(i) == calls[i].spc = "returned" /\ calls[i].pending = <<>>

\* C29: the events on the "ai-stream" sink carry only a content string and a
\* done flag, no request identity; with two generate calls in flight the
\* sequence the sink has seen is an interleaving of the two calls' own
\* sequences, each in its order, and when both calls have ended it holds
\* exactly one Done for each call that ended without error.
C29_SinkInterleaves ==
    /\ \A n \in 1..Len(sink) : DOMAIN sink[n] = {"content", "done"}
    /\ Interleaving(sink, Emitted(1), Emitted(2))
    /\ (\A i \in Calls : Finished(i))
       => Len(Dones(sink)) = Cardinality({i \in Calls : calls[i].result.tag = "Ok"})

\* both calls have returned a fragment and a Done, and the sink has received
\* the two fragments before the two Dones
C29_Witness ==
    /\ \A i \in Calls : Finished(i) /\ calls[i].events = <<Delta(<<"a">>), Done>>
    /\ sink = <<Delta(<<"a">>), Delta(<<"a">>), Done, Done>>

\* C30: clipboard text that is empty or only whitespace is never captured: the
\* text check submits no item for it, emits no notification and leaves the
\* last-seen text hash (and the table) as it is; so when the text copied before
\* the whitespace is seen again right after it, it is not submitted again.
C30_BlankTextIgnored ==
    [][/\ (TextStep /\ tobs'.ok /\ Blank(tobs'.text))
          => /\ tret' = "none"
             /\ store' = store /\ emitted' = emitted /\ nextId' = nextId
             /\ last_text_hash' = last_text_hash
       /\ (TextStep /\ tobs.ok /\ Blank(tobs.text)
            /\ tobs'.ok /\ compute_hash(tobs'.text) = last_text_hash)
          => /\ tret' = "none"
             /\ store' = store /\ emitted' = emitted]_vars

\* the loop has just seen a text of whitespace after it had captured a text:
\* nothing was submitted and the last-seen hash is still that of the text
C30_Witness ==
    /\ pc = "image" /\ tobs.ok /\ tobs.text = <<" ">>
    /\ tret = "none"
    /\ last_text_hash = compute_hash(<<"a">>)
    /\ \E r \in store : r.content_hash = last_text_hash
    /\ Len(emitted) = 1

\* a command has changed the table while the loop stood still
TableStep == pc' = pc /\ store' # store

\* C31: while the clipboard content stays unchanged, one running loop submits
\* it at most once.  The last-seen hash of the loop is the hash of the last
\* non-blank text (the last image) it has observed, and only a check of the
\* loop changes it; a content whose hash is the last-seen one is not
\* submitted, so when its item has been deleted (delete_clip or the sweep)
\* and the clipboard still shows it, the loop does not insert it again and
\* emits nothing.
C31_UnchangedContentSubmittedOnce ==
    [][/\ (TextStep /\ tobs'.ok /\ ~Blank(tobs'.text))
          => last_text_hash' = compute_hash(tobs'.text)
       /\ (TextStep /\ tobs'.ok /\ compute_hash(tobs'.text) = last_text_hash)
          => /\ tret' = "none"
             /\ store' = store /\ emitted' = emitted
             /\ last_text_hash' = last_text_hash
       /\ (ImageStep /\ iobs'.ok)
          => last_image_hash' = compute_hash_bytes(iobs'.img.bytes)
       /\ (ImageStep /\ iobs'.ok /\ compute_hash_bytes(iobs'.img.bytes) = last_image_hash)
          => /\ iret' = "none"
             /\ store' = store /\ emitted' = emitted
       /\ TableStep
          => /\ last_text_hash' = last_text_hash /\ last_image_hash' = last_image_hash
             /\ emitted' = emitted
       /\ (SameTextAgain /\ compute_hash(tobs.text) \notin Hashes(store))
          => /\ compute_hash(tobs.text) \notin Hashes(store')
             /\ emitted' = emitted]_vars

\* the loop has captured a text, its item has been deleted, and the loop has
\* seen the same text again: it is not in the table and was notified once
C31_Witness ==
    /\ pc = "image" /\ tobs.ok /\ tobs.text = <<"a">> /\ tret = "none"
    /\ last_text_hash = compute_hash(<<"a">>)
    /\ compute_hash(<<"a">>) \notin Hashes(store)
    /\ Len(emitted) = 1 /\ emitted[1].content_hash = compute_hash(<<"a">>)


\* ------------------------------------------------ properties of the providers
Defaults(table) == {q \in table : q.is_default}
ProviderCall(op) == pcall'.op = op /\ pcall'.ret = "Ok"

\* C32: at most one stored provider has is_default set.  An upsert_provider that
\* returns Ok with is_default = true leaves the flag on the upserted row alone and
\* every other row as it was but for the flag; an upsert_provider with
\* is_default = false and a delete_provider put the flag on no row that did not
\* have it and leave every other row as it was.  So the provider ai_generate
\* finds by the flag is the only one that has it.
C32_AtMostOneDefault ==
    /\ [](Cardinality(Defaults(providers)) <= 1)
    /\ []((pcall.op = "ai_generate" /\ pcall.id = 0)
          => IF chosen = None THEN Defaults(providers) = {}
                              ELSE Defaults(providers) = {chosen[1]})
    /\ [][/\ (ProviderCall("upsert_provider") /\ pcall'.is_default)
             => /\ {q.id : q \in Defaults(providers')} = {pcall'.id}
                /\ \A q \in providers : q.id # pcall'.id
                      => [q EXCEPT !.is_default = FALSE] \in providers'
          /\ (ProviderCall("upsert_provider") /\ ~pcall'.is_default)
             => /\ Defaults(providers') \subseteq Defaults(providers)
                /\ \A q \in providers : q.id # pcall'.id => q \in providers'
          /\ ProviderCall("delete_provider")
             => /\ Defaults(providers') \subseteq Defaults(providers)
                /\ \A q \in providers : q.id # pcall'.id => q \in providers'
         ]_vars

\* an upsert with the flag has just taken it from another stored provider
C32_Witness ==
    /\ pcall.op = "upsert_provider" /\ pcall.is_default /\ pcall.ret = "Ok"
    /\ \E q \in providers :
          /\ q.id # pcall.id /\ ~q.is_default
          /\ pcall.had_default = {q.id}
    /\ Defaults(providers) = {[id |-> pcall.id, name |-> pcall.name, is_default |-> TRUE]}
====
